---- MODULE Spec2Model ----
(***************************************************************************)
(* Model of the Tacview real-time telemetry client: the TCP handshake      *)
(* (src/src/tcp.rs), the ACMI header parser and line assembler             *)
(* (src/src/acmi/mod.rs) and the record decoders (src/src/acmi/record/).   *)
(*                                                                         *)
(* Text is a sequence of one-character strings, so that prefixes,          *)
(* suffixes and splitting are computed character by character as the Rust  *)
(* string methods compute them.                                            *)
(***************************************************************************)
EXTENDS Integers, Sequences, FiniteSets, TLC

\* ------------------------------------------------------------------------
\* Characters with a special role
\* ------------------------------------------------------------------------
NL == "\n"
BS == "\\"
NUL == "NUL"

\* ------------------------------------------------------------------------
\* Results: Ok(v) / Err(e), as Rust's Result
\* ------------------------------------------------------------------------
Ok(v) == [ok |-> TRUE, val |-> v]
Err(e) == [ok |-> FALSE, val |-> e]
None == [some |-> FALSE]
Some(v) == [some |-> TRUE, v |-> v]

\* ------------------------------------------------------------------------
\* str methods used by the code
\* ------------------------------------------------------------------------
starts_with(s, p) == Len(s) >= Len(p) /\ SubSeq(s, 1, Len(p)) = p

ends_with(s, c) == Len(s) > 0 /\ s[Len(s)] = c

\* s.strip_prefix(p) when s.starts_with(p)
after_prefix(s, p) == SubSeq(s, Len(p) + 1, Len(s))

\* s.strip_suffix(c).unwrap_or(s)
strip_suffix_or(s, c) == IF ends_with(s, c) THEN SubSeq(s, 1, Len(s) - 1) ELSE s

\* String::pop: the string without its last character
pop(s) == SubSeq(s, 1, Len(s) - 1)

\* index of the first occurrence of c in s at or after position i, 0 if none
RECURSIVE find_from(_, _, _)
find_from(s, c, i) ==
    IF i > Len(s) THEN 0
    ELSE IF s[i] = c THEN i
    ELSE find_from(s, c, i + 1)

find(s, c) == find_from(s, c, 1)

\* s.split_once(c): None, or the text before and after the first c
split_once(s, c) ==
    LET i == find(s, c)
    IN IF i = 0 THEN None
       ELSE Some(<<SubSeq(s, 1, i - 1), SubSeq(s, i + 1, Len(s))>>)

\* s.split(c): never empty; "" gives one empty token
RECURSIVE split(_, _)
split(s, c) ==
    LET i == find(s, c)
    IN IF i = 0 THEN <<s>>
       ELSE <<SubSeq(s, 1, i - 1)>> \o split(SubSeq(s, i + 1, Len(s)), c)

\* ------------------------------------------------------------------------
\* Primitive decoders
\* ------------------------------------------------------------------------
DecDigits == <<"0", "1", "2", "3", "4", "5", "6", "7", "8", "9">>
HexLower == <<"a", "b", "c", "d", "e", "f">>
HexUpper == <<"A", "B", "C", "D", "E", "F">>

\* char::to_digit(radix): the digit value, or -1 when c is not a digit
to_digit(c, radix) ==
    IF \E i \in 1..10 : DecDigits[i] = c /\ i - 1 < radix
    THEN (CHOOSE i \in 1..10 : DecDigits[i] = c) - 1
    ELSE IF radix = 16 /\ \E i \in 1..6 : HexLower[i] = c
    THEN (CHOOSE i \in 1..6 : HexLower[i] = c) + 9
    ELSE IF radix = 16 /\ \E i \in 1..6 : HexUpper[i] = c
    THEN (CHOOSE i \in 1..6 : HexUpper[i] = c) + 9
    ELSE -1

RECURSIVE digits_value(_, _, _)
digits_value(s, radix, acc) ==
    IF s = <<>> THEN acc
    ELSE digits_value(Tail(s), radix, acc * radix + to_digit(Head(s), radix))

RECURSIVE strip_zeros(_)
strip_zeros(s) == IF s # <<>> /\ Head(s) = "0" THEN strip_zeros(Tail(s)) ELSE s

\* most digits a u64 can hold without any overflow, per radix
U64SafeDigits(radix) == IF radix = 16 THEN 16 ELSE 19

\* u64::from_str_radix(s, radix): optional leading '+', then digits.
\* Overflow is decided on the number of significant digits; a decimal text of
\* 20 significant digits is reported as overflow although some fit in u64.
u64_from_str_radix(s, radix) ==
    LET body == IF Len(s) > 1 /\ Head(s) = "+" THEN Tail(s) ELSE s
    IN IF s = <<>> THEN Err([err |-> "ParseInt", kind |-> "Empty"])
       ELSE IF \E i \in 1..Len(body) : to_digit(body[i], radix) < 0
       THEN Err([err |-> "ParseInt", kind |-> "InvalidDigit"])
       ELSE IF Len(strip_zeros(body)) > U64SafeDigits(radix)
       THEN Err([err |-> "ParseInt", kind |-> "PosOverflow"])
       ELSE Ok(digits_value(body, radix, 0))

parse_object_id(id) == u64_from_str_radix(id, 16)

\* a decimal value m / 10^e with no trailing zero in the fraction
RECURSIVE normal_decimal(_, _)
normal_decimal(m, e) ==
    IF e > 0 /\ m % 10 = 0 THEN normal_decimal(m \div 10, e - 1)
    ELSE [m |-> m, e |-> e]

\* f64::from_str on plain decimal text: optional sign, digits with at most
\* one '.', at least one digit.  The value is the exact decimal; -0 equals 0.
\* Exponents and the words inf / nan are not among the modelled inputs.
f64_from_str(s) ==
    LET signed == s # <<>> /\ Head(s) \in {"+", "-"}
        body == IF signed THEN Tail(s) ELSE s
        dot == find(body, ".")
        ip == IF dot = 0 THEN body ELSE SubSeq(body, 1, dot - 1)
        fp == IF dot = 0 THEN <<>> ELSE SubSeq(body, dot + 1, Len(body))
        alldigits(t) == \A i \in 1..Len(t) : to_digit(t[i], 10) >= 0
        mag == digits_value(ip \o fp, 10, 0)
    IN IF s = <<>> THEN Err([err |-> "ParseFloat", kind |-> "Empty"])
       ELSE IF ~alldigits(ip) \/ ~alldigits(fp) \/ Len(ip) + Len(fp) = 0
       THEN Err([err |-> "ParseFloat", kind |-> "Invalid"])
       ELSE Ok(normal_decimal(IF signed /\ Head(s) = "-" THEN 0 - mag ELSE mag,
                              Len(fp)))

\* OffsetDateTime::parse(value, &Rfc3339), for the UTC form
\* YYYY-MM-DDTHH:MM:SSZ; any other text is a ParseDateTime error.
rfc3339_parse(s) ==
    LET num(a, b) == digits_value(SubSeq(s, a, b), 10, 0)
        isnum(a, b) == \A i \in a..b : to_digit(s[i], 10) >= 0
    IN IF /\ Len(s) = 20
          /\ isnum(1, 4) /\ s[5] = "-" /\ isnum(6, 7) /\ s[8] = "-"
          /\ isnum(9, 10) /\ s[11] = "T" /\ isnum(12, 13) /\ s[14] = ":"
          /\ isnum(15, 16) /\ s[17] = ":" /\ isnum(18, 19) /\ s[20] = "Z"
          /\ num(6, 7) \in 1..12 /\ num(9, 10) \in 1..31
          /\ num(12, 13) < 24 /\ num(15, 16) < 60 /\ num(18, 19) < 60
       THEN Ok([year |-> num(1, 4), month |-> num(6, 7), day |-> num(9, 10),
                hour |-> num(12, 13), minute |-> num(15, 16),
                second |-> num(18, 19)])
       ELSE Err([err |-> "ParseDateTime"])

\* ------------------------------------------------------------------------
\* parse_comma (record/mod.rs)
\* ------------------------------------------------------------------------
\* one pass of the for loop: st = [output, buf]
parse_comma_step(st, token) ==
    LET buf == st.buf \o token
    IN IF ends_with(buf, BS)
       THEN [output |-> st.output, buf |-> Append(pop(buf), ",")]
       ELSE [output |-> Append(st.output, buf), buf |-> <<>>]

RECURSIVE parse_comma_fold(_, _)
parse_comma_fold(st, tokens) ==
    IF tokens = <<>> THEN st
    ELSE parse_comma_fold(parse_comma_step(st, Head(tokens)), Tail(tokens))

parse_comma(line) ==
    LET st == parse_comma_fold([output |-> <<>>, buf |-> <<>>], split(line, ","))
    IN IF st.buf # <<>> THEN Append(st.output, st.buf) ELSE st.output

\* ------------------------------------------------------------------------
\* Tag, Color, Coords (record/object_property.rs)
\* ------------------------------------------------------------------------
TagTable ==
    <<
       [name |-> <<"A", "i", "r">>, tag |-> "Air"],
       [name |-> <<"G", "r", "o", "u", "n", "d">>, tag |-> "Ground"],
       [name |-> <<"S", "e", "a">>, tag |-> "Sea"],
       [name |-> <<"W", "e", "a", "p", "o", "n">>, tag |-> "Weapon"],
       [name |-> <<"S", "e", "n", "s", "o", "r">>, tag |-> "Sensor"],
       [name |-> <<"N", "a", "v", "a", "i", "d">>, tag |-> "Navaid"],
       [name |-> <<"M", "i", "s", "c">>, tag |-> "Misc"],
       [name |-> <<"S", "t", "a", "t", "i", "c">>, tag |-> "Static"],
       [name |-> <<"H", "e", "a", "v", "y">>, tag |-> "Heavy"],
       [name |-> <<"M", "e", "d", "i", "u", "m">>, tag |-> "Medium"],
       [name |-> <<"L", "i", "g", "h", "t">>, tag |-> "Light"],
       [name |-> <<"M", "i", "n", "o", "r">>, tag |-> "Minor"],
       [name |-> <<"F", "i", "x", "e", "d", "W", "i", "n", "g">>, tag |-> "FixedWing"],
       [name |-> <<"R", "o", "t", "o", "r", "c", "r", "a", "f", "t">>, tag |-> "Rotorcraft"],
       [name |-> <<"A", "r", "m", "o", "r">>, tag |-> "Armor"],
       [name |-> <<"A", "n", "t", "i", "A", "i", "r", "c", "r", "a", "f", "t">>, tag |-> "AntiAircraft"],
       [name |-> <<"V", "e", "h", "i", "c", "l", "e">>, tag |-> "Vehicle"],
       [name |-> <<"W", "a", "t", "e", "r", "c", "r", "a", "f", "t">>, tag |-> "Watercraft"],
       [name |-> <<"H", "u", "m", "a", "n">>, tag |-> "Human"],
       [name |-> <<"B", "i", "o", "l", "o", "g", "i", "c">>, tag |-> "Biologic"],
       [name |-> <<"M", "i", "s", "s", "i", "l", "e">>, tag |-> "Missile"],
       [name |-> <<"R", "o", "c", "k", "e", "t">>, tag |-> "Rocket"],
       [name |-> <<"B", "o", "m", "b">>, tag |-> "Bomb"],
       [name |-> <<"T", "o", "r", "p", "e", "d", "o">>, tag |-> "Torpedo"],
       [name |-> <<"P", "r", "o", "j", "e", "c", "t", "i", "l", "e">>, tag |-> "Projectile"],
       [name |-> <<"B", "e", "a", "m">>, tag |-> "Beam"],
       [name |-> <<"D", "e", "c", "o", "y">>, tag |-> "Decoy"],
       [name |-> <<"B", "u", "i", "l", "d", "i", "n", "g">>, tag |-> "Building"],
       [name |-> <<"B", "u", "l", "l", "s", "e", "y", "e">>, tag |-> "Bullseye"],
       [name |-> <<"W", "a", "y", "p", "o", "i", "n", "t">>, tag |-> "Waypoint"],
       [name |-> <<"T", "a", "n", "k">>, tag |-> "Tank"],
       [name |-> <<"W", "a", "r", "s", "h", "i", "p">>, tag |-> "Warship"],
       [name |-> <<"A", "i", "r", "c", "r", "a", "f", "t", "C", "a", "r", "r", "i", "e", "r">>, tag |-> "AircraftCarrier"],
       [name |-> <<"S", "u", "b", "m", "a", "r", "i", "n", "e">>, tag |-> "Submarine"],
       [name |-> <<"I", "n", "f", "a", "n", "t", "r", "y">>, tag |-> "Infantry"],
       [name |-> <<"P", "a", "r", "a", "c", "h", "u", "t", "i", "s", "t">>, tag |-> "Parachutist"],
       [name |-> <<"S", "h", "e", "l", "l">>, tag |-> "Shell"],
       [name |-> <<"B", "u", "l", "l", "e", "t">>, tag |-> "Bullet"],
       [name |-> <<"G", "r", "e", "n", "a", "d", "e">>, tag |-> "Grenade"],
       [name |-> <<"F", "l", "a", "r", "e">>, tag |-> "Flare"],
       [name |-> <<"C", "h", "a", "f", "f">>, tag |-> "Chaff"],
       [name |-> <<"S", "m", "o", "k", "e", "G", "r", "e", "n", "a", "d", "e">>, tag |-> "SmokeGrenade"],
       [name |-> <<"A", "e", "r", "o", "d", "r", "o", "m", "e">>, tag |-> "Aerodrome"],
       [name |-> <<"C", "o", "n", "t", "a", "i", "n", "e", "r">>, tag |-> "Container"],
       [name |-> <<"S", "h", "r", "a", "p", "n", "e", "l">>, tag |-> "Shrapnel"],
       [name |-> <<"E", "x", "p", "l", "o", "s", "i", "o", "n">>, tag |-> "Explosion"]
    >>

Tag_from_str(s) ==
    IF \E i \in 1..Len(TagTable) : TagTable[i].name = s
    THEN Ok([tag |-> TagTable[CHOOSE i \in 1..Len(TagTable) : TagTable[i].name = s].tag,
             text |-> <<>>])
    ELSE Ok([tag |-> "Other", text |-> s])

ColorTable ==
    <<
       [name |-> <<"R", "e", "d">>, color |-> "Red"],
       [name |-> <<"O", "r", "a", "n", "g", "e">>, color |-> "Orange"],
       [name |-> <<"Y", "e", "l", "l", "o", "w">>, color |-> "Yellow"],
       [name |-> <<"G", "r", "e", "e", "n">>, color |-> "Green"],
       [name |-> <<"C", "y", "a", "n">>, color |-> "Cyan"],
       [name |-> <<"B", "l", "u", "e">>, color |-> "Blue"],
       [name |-> <<"V", "i", "o", "l", "e", "t">>, color |-> "Violet"]
    >>

Color_from_str(s) ==
    IF \E i \in 1..Len(ColorTable) : ColorTable[i].name = s
    THEN Ok([color |-> ColorTable[CHOOSE i \in 1..Len(ColorTable) : ColorTable[i].name = s].color,
             text |-> <<>>])
    ELSE Ok([color |-> "Other", text |-> s])

CoordFields ==
    <<"longitude", "latitude", "altitude", "roll", "pitch", "yaw", "u", "v", "heading">>

CoordsDefault == [f \in {CoordFields[i] : i \in 1..9} |-> None]

\* one coordinate token: empty gives None, else the parsed float
coord_token(t) ==
    IF t = <<>> THEN Ok(None)
    ELSE LET r == f64_from_str(t) IN IF r.ok THEN Ok(Some(r.val)) ELSE r

\* tokens.next() calls that Coords::from_str makes, in order, for n tokens
coords_needed(n) == IF n < 4 THEN 3 ELSE IF n < 6 THEN 5 ELSE IF n < 7 THEN 6 ELSE 9

\* (mutation of coords_layout: five tokens read as lon, lat, alt, roll, pitch)
coords_layout_attitude_first(needed) ==
    CASE needed = 3 -> <<"longitude", "latitude", "altitude">>
      [] needed = 5 -> <<"longitude", "latitude", "altitude", "roll", "pitch">>
      [] needed = 6 -> <<"longitude", "latitude", "altitude", "roll", "pitch", "yaw">>
      [] needed = 9 -> CoordFields

\* the struct field that the i-th token fills, per number of tokens read
coords_layout(needed) ==
    CASE needed = 3 -> <<"longitude", "latitude", "altitude">>
      [] needed = 5 -> <<"longitude", "latitude", "altitude", "u", "v">>
      [] needed = 6 -> <<"longitude", "latitude", "altitude", "roll", "pitch", "yaw">>
      [] needed = 9 -> CoordFields

\* Coords::from_str: the tokens are taken one at a time, and the first
\* missing or unparsable token, in reading order, decides the error.
Coords_from_str(s) ==
    LET tokens == split(s, "|")
        needed == coords_needed(Len(tokens))
        read == IF Len(tokens) < needed THEN Len(tokens) ELSE needed
        toks == [i \in 1..read |-> coord_token(tokens[i])]
        bad == {i \in 1..read : ~toks[i].ok}
        layout == coords_layout(needed)
    IN IF bad # {} THEN toks[CHOOSE i \in bad : \A j \in bad : i <= j]
       ELSE IF read < needed THEN Err([err |-> "MalformedCoords", text |-> s])
       ELSE Ok([f \in DOMAIN CoordsDefault |->
                   IF \E i \in 1..needed : layout[i] = f
                   THEN toks[CHOOSE i \in 1..needed : layout[i] = f].val
                   ELSE None])

\* (mutation of Coords_update: a field of self that is present is kept)
Coords_update_fill_absent(self, other) ==
    [f \in DOMAIN self |-> IF self[f].some THEN self[f] ELSE other[f]]

\* (mutation of Coords_update: self becomes a copy of other)
Coords_update_replace(self, other) ==
    [f \in DOMAIN self |-> other[f]]

\* Coords::update(self, other)
Coords_update(self, other) ==
    [f \in DOMAIN self |-> IF other[f].some THEN other[f] ELSE self[f]]

\* ------------------------------------------------------------------------
\* ObjectProperty::from_str: the if / else-if chain as a table in source
\* order; the first key that is a prefix of the field decides
\* ------------------------------------------------------------------------
ObjectPropertyTable ==
    <<
       [key |-> <<"T", "=">>, variant |-> "T", decoder |-> "coords"],
       [key |-> <<"N", "a", "m", "e", "=">>, variant |-> "Name", decoder |-> "text"],
       [key |-> <<"T", "y", "p", "e", "=">>, variant |-> "Type", decoder |-> "tags"],
       [key |-> <<"P", "a", "r", "e", "n", "t", "=">>, variant |-> "Parent", decoder |-> "id"],
       [key |-> <<"N", "e", "x", "t", "=">>, variant |-> "Next", decoder |-> "id"],
       [key |-> <<"C", "a", "l", "l", "s", "i", "g", "n", "=">>, variant |-> "Callsign", decoder |-> "text"],
       [key |-> <<"R", "e", "g", "i", "s", "t", "r", "a", "t", "i", "o", "n", "=">>, variant |-> "Registration", decoder |-> "text"],
       [key |-> <<"S", "q", "u", "a", "w", "k", "=">>, variant |-> "Squawk", decoder |-> "text"],
       [key |-> <<"I", "C", "A", "O", "2", "4", "=">>, variant |-> "Icao24", decoder |-> "text"],
       [key |-> <<"P", "i", "l", "o", "t", "=">>, variant |-> "Pilot", decoder |-> "text"],
       [key |-> <<"G", "r", "o", "u", "p", "=">>, variant |-> "Group", decoder |-> "text"],
       [key |-> <<"C", "o", "u", "n", "t", "r", "y", "=">>, variant |-> "Country", decoder |-> "text"],
       [key |-> <<"C", "o", "a", "l", "i", "t", "i", "o", "n", "=">>, variant |-> "Coalition", decoder |-> "text"],
       [key |-> <<"C", "o", "l", "o", "r", "=">>, variant |-> "Color", decoder |-> "color"],
       [key |-> <<"S", "h", "a", "p", "e", "=">>, variant |-> "Shape", decoder |-> "text"],
       [key |-> <<"D", "e", "b", "u", "g", "=">>, variant |-> "Debug", decoder |-> "text"],
       [key |-> <<"L", "a", "b", "e", "l", "=">>, variant |-> "Label", decoder |-> "text"],
       [key |-> <<"F", "o", "c", "u", "s", "e", "d", "T", "a", "r", "g", "e", "t", "=">>, variant |-> "FocusedTarget", decoder |-> "id"],
       [key |-> <<"L", "o", "c", "k", "e", "d", "T", "a", "r", "g", "e", "t", "=">>, variant |-> "LockedTarget", decoder |-> "id"],
       [key |-> <<"L", "o", "c", "k", "e", "d", "T", "a", "r", "g", "e", "t", "2", "=">>, variant |-> "LockedTarget2", decoder |-> "id"],
       [key |-> <<"L", "o", "c", "k", "e", "d", "T", "a", "r", "g", "e", "t", "3", "=">>, variant |-> "LockedTarget3", decoder |-> "id"],
       [key |-> <<"L", "o", "c", "k", "e", "d", "T", "a", "r", "g", "e", "t", "4", "=">>, variant |-> "LockedTarget4", decoder |-> "id"],
       [key |-> <<"L", "o", "c", "k", "e", "d", "T", "a", "r", "g", "e", "t", "5", "=">>, variant |-> "LockedTarget5", decoder |-> "id"],
       [key |-> <<"L", "o", "c", "k", "e", "d", "T", "a", "r", "g", "e", "t", "6", "=">>, variant |-> "LockedTarget6", decoder |-> "id"],
       [key |-> <<"L", "o", "c", "k", "e", "d", "T", "a", "r", "g", "e", "t", "7", "=">>, variant |-> "LockedTarget7", decoder |-> "id"],
       [key |-> <<"L", "o", "c", "k", "e", "d", "T", "a", "r", "g", "e", "t", "8", "=">>, variant |-> "LockedTarget8", decoder |-> "id"],
       [key |-> <<"L", "o", "c", "k", "e", "d", "T", "a", "r", "g", "e", "t", "9", "=">>, variant |-> "LockedTarget9", decoder |-> "id"],
       [key |-> <<"I", "m", "p", "o", "r", "t", "a", "n", "c", "e", "=">>, variant |-> "Importance", decoder |-> "u64"],
       [key |-> <<"S", "l", "o", "t", "=">>, variant |-> "Slot", decoder |-> "u64"],
       [key |-> <<"D", "i", "s", "a", "b", "l", "e", "d", "=">>, variant |-> "Disabled", decoder |-> "bool1"],
       [key |-> <<"V", "i", "s", "i", "b", "l", "e", "=">>, variant |-> "Visible", decoder |-> "f64"],
       [key |-> <<"H", "e", "a", "l", "t", "h", "=">>, variant |-> "Health", decoder |-> "f64"],
       [key |-> <<"L", "e", "n", "g", "t", "h", "=">>, variant |-> "Length", decoder |-> "f64"],
       [key |-> <<"W", "i", "d", "t", "h", "=">>, variant |-> "Width", decoder |-> "f64"],
       [key |-> <<"R", "a", "d", "i", "u", "s", "=">>, variant |-> "Radius", decoder |-> "f64"],
       [key |-> <<"I", "A", "S", "=">>, variant |-> "Ias", decoder |-> "f64"],
       [key |-> <<"C", "A", "S", "=">>, variant |-> "Cas", decoder |-> "f64"],
       [key |-> <<"T", "A", "S", "=">>, variant |-> "Tas", decoder |-> "f64"],
       [key |-> <<"M", "a", "c", "h", "=">>, variant |-> "Mach", decoder |-> "f64"],
       [key |-> <<"A", "O", "A", "=">>, variant |-> "Aoa", decoder |-> "f64"],
       [key |-> <<"A", "O", "S", "=">>, variant |-> "Aos", decoder |-> "f64"],
       [key |-> <<"A", "G", "L", "=">>, variant |-> "Agl", decoder |-> "f64"],
       [key |-> <<"H", "D", "G", "=">>, variant |-> "Hdg", decoder |-> "f64"],
       [key |-> <<"H", "D", "M", "=">>, variant |-> "Hdm", decoder |-> "f64"],
       [key |-> <<"T", "h", "r", "o", "t", "t", "l", "e", "=">>, variant |-> "Throttle", decoder |-> "f64"],
       [key |-> <<"A", "f", "t", "e", "r", "b", "u", "r", "n", "e", "r", "=">>, variant |-> "Afterburner", decoder |-> "f64"],
       [key |-> <<"A", "i", "r", "B", "r", "a", "k", "e", "s", "=">>, variant |-> "AirBrakes", decoder |-> "f64"],
       [key |-> <<"F", "l", "a", "p", "s", "=">>, variant |-> "Flaps", decoder |-> "f64"],
       [key |-> <<"L", "a", "n", "d", "i", "n", "g", "G", "e", "a", "r", "=">>, variant |-> "LandingGear", decoder |-> "f64"],
       [key |-> <<"L", "a", "n", "d", "i", "n", "g", "G", "e", "a", "r", "H", "a", "n", "d", "l", "e", "=">>, variant |-> "LandingGearHandle", decoder |-> "f64"],
       [key |-> <<"T", "a", "i", "l", "h", "o", "o", "k", "=">>, variant |-> "Tailhook", decoder |-> "f64"],
       [key |-> <<"P", "a", "r", "a", "c", "h", "u", "t", "e", "=">>, variant |-> "Parachute", decoder |-> "f64"],
       [key |-> <<"D", "r", "a", "g", "C", "h", "u", "t", "e", "=">>, variant |-> "DragChute", decoder |-> "f64"],
       [key |-> <<"F", "u", "e", "l", "W", "e", "i", "g", "h", "t", "=">>, variant |-> "FuelWeight", decoder |-> "f64"],
       [key |-> <<"F", "u", "e", "l", "W", "e", "i", "g", "h", "t", "2", "=">>, variant |-> "FuelWeight2", decoder |-> "f64"],
       [key |-> <<"F", "u", "e", "l", "W", "e", "i", "g", "h", "t", "3", "=">>, variant |-> "FuelWeight3", decoder |-> "f64"],
       [key |-> <<"F", "u", "e", "l", "W", "e", "i", "g", "h", "t", "4", "=">>, variant |-> "FuelWeight4", decoder |-> "f64"],
       [key |-> <<"F", "u", "e", "l", "W", "e", "i", "g", "h", "t", "5", "=">>, variant |-> "FuelWeight5", decoder |-> "f64"],
       [key |-> <<"F", "u", "e", "l", "W", "e", "i", "g", "h", "t", "6", "=">>, variant |-> "FuelWeight6", decoder |-> "f64"],
       [key |-> <<"F", "u", "e", "l", "W", "e", "i", "g", "h", "t", "7", "=">>, variant |-> "FuelWeight7", decoder |-> "f64"],
       [key |-> <<"F", "u", "e", "l", "W", "e", "i", "g", "h", "t", "8", "=">>, variant |-> "FuelWeight8", decoder |-> "f64"],
       [key |-> <<"F", "u", "e", "l", "W", "e", "i", "g", "h", "t", "9", "=">>, variant |-> "FuelWeight9", decoder |-> "f64"],
       [key |-> <<"F", "u", "e", "l", "V", "o", "l", "u", "m", "e", "=">>, variant |-> "FuelVolume", decoder |-> "f64"],
       [key |-> <<"F", "u", "e", "l", "V", "o", "l", "u", "m", "e", "2", "=">>, variant |-> "FuelVolume2", decoder |-> "f64"],
       [key |-> <<"F", "u", "e", "l", "V", "o", "l", "u", "m", "e", "3", "=">>, variant |-> "FuelVolume3", decoder |-> "f64"],
       [key |-> <<"F", "u", "e", "l", "V", "o", "l", "u", "m", "e", "4", "=">>, variant |-> "FuelVolume4", decoder |-> "f64"],
       [key |-> <<"F", "u", "e", "l", "V", "o", "l", "u", "m", "e", "5", "=">>, variant |-> "FuelVolume5", decoder |-> "f64"],
       [key |-> <<"F", "u", "e", "l", "V", "o", "l", "u", "m", "e", "6", "=">>, variant |-> "FuelVolume6", decoder |-> "f64"],
       [key |-> <<"F", "u", "e", "l", "V", "o", "l", "u", "m", "e", "7", "=">>, variant |-> "FuelVolume7", decoder |-> "f64"],
       [key |-> <<"F", "u", "e", "l", "V", "o", "l", "u", "m", "e", "8", "=">>, variant |-> "FuelVolume8", decoder |-> "f64"],
       [key |-> <<"F", "u", "e", "l", "V", "o", "l", "u", "m", "e", "9", "=">>, variant |-> "FuelVolume9", decoder |-> "f64"],
       [key |-> <<"F", "u", "e", "l", "F", "l", "o", "w", "W", "e", "i", "g", "h", "t", "=">>, variant |-> "FuelFlowWeight", decoder |-> "f64"],
       [key |-> <<"F", "u", "e", "l", "F", "l", "o", "w", "W", "e", "i", "g", "h", "t", "2", "=">>, variant |-> "FuelFlowWeight2", decoder |-> "f64"],
       [key |-> <<"F", "u", "e", "l", "F", "l", "o", "w", "W", "e", "i", "g", "h", "t", "3", "=">>, variant |-> "FuelFlowWeight3", decoder |-> "f64"],
       [key |-> <<"F", "u", "e", "l", "F", "l", "o", "w", "W", "e", "i", "g", "h", "t", "4", "=">>, variant |-> "FuelFlowWeight4", decoder |-> "f64"],
       [key |-> <<"F", "u", "e", "l", "F", "l", "o", "w", "W", "e", "i", "g", "h", "t", "5", "=">>, variant |-> "FuelFlowWeight5", decoder |-> "f64"],
       [key |-> <<"F", "u", "e", "l", "F", "l", "o", "w", "W", "e", "i", "g", "h", "t", "6", "=">>, variant |-> "FuelFlowWeight6", decoder |-> "f64"],
       [key |-> <<"F", "u", "e", "l", "F", "l", "o", "w", "W", "e", "i", "g", "h", "t", "7", "=">>, variant |-> "FuelFlowWeight7", decoder |-> "f64"],
       [key |-> <<"F", "u", "e", "l", "F", "l", "o", "w", "V", "o", "l", "u", "m", "e", "=">>, variant |-> "FuelFlowVolume", decoder |-> "f64"],
       [key |-> <<"F", "u", "e", "l", "F", "l", "o", "w", "V", "o", "l", "u", "m", "e", "2", "=">>, variant |-> "FuelFlowVolume2", decoder |-> "f64"],
       [key |-> <<"F", "u", "e", "l", "F", "l", "o", "w", "V", "o", "l", "u", "m", "e", "3", "=">>, variant |-> "FuelFlowVolume3", decoder |-> "f64"],
       [key |-> <<"F", "u", "e", "l", "F", "l", "o", "w", "V", "o", "l", "u", "m", "e", "4", "=">>, variant |-> "FuelFlowVolume4", decoder |-> "f64"],
       [key |-> <<"F", "u", "e", "l", "F", "l", "o", "w", "V", "o", "l", "u", "m", "e", "5", "=">>, variant |-> "FuelFlowVolume5", decoder |-> "f64"],
       [key |-> <<"F", "u", "e", "l", "F", "l", "o", "w", "V", "o", "l", "u", "m", "e", "6", "=">>, variant |-> "FuelFlowVolume6", decoder |-> "f64"],
       [key |-> <<"F", "u", "e", "l", "F", "l", "o", "w", "V", "o", "l", "u", "m", "e", "7", "=">>, variant |-> "FuelFlowVolume7", decoder |-> "f64"],
       [key |-> <<"R", "a", "d", "a", "r", "M", "o", "d", "e", "=">>, variant |-> "RadarMode", decoder |-> "u64"],
       [key |-> <<"R", "a", "d", "a", "r", "A", "z", "i", "m", "u", "t", "h", "=">>, variant |-> "RadarAzimuth", decoder |-> "f64"],
       [key |-> <<"R", "a", "d", "a", "r", "E", "l", "e", "v", "a", "t", "i", "o", "n", "=">>, variant |-> "RadarElevation", decoder |-> "f64"],
       [key |-> <<"R", "a", "d", "a", "r", "R", "o", "l", "l", "=">>, variant |-> "RadarRoll", decoder |-> "f64"],
       [key |-> <<"R", "a", "d", "a", "r", "R", "a", "n", "g", "e", "=">>, variant |-> "RadarRange", decoder |-> "f64"],
       [key |-> <<"R", "a", "d", "a", "r", "H", "o", "r", "i", "z", "o", "n", "t", "a", "l", "B", "e", "a", "m", "w", "i", "d", "t", "h", "=">>, variant |-> "RadarHorizontalBeamwidth", decoder |-> "f64"],
       [key |-> <<"R", "a", "d", "a", "r", "V", "e", "r", "t", "i", "c", "a", "l", "B", "e", "a", "m", "w", "i", "d", "t", "h", "=">>, variant |-> "RadarVerticalBeamwidth", decoder |-> "f64"],
       [key |-> <<"R", "a", "d", "a", "r", "R", "a", "n", "g", "e", "G", "a", "t", "e", "A", "z", "i", "m", "u", "t", "h", "=">>, variant |-> "RadarRangeGateAzimuth", decoder |-> "f64"],
       [key |-> <<"R", "a", "d", "a", "r", "R", "a", "n", "g", "e", "G", "a", "t", "e", "E", "l", "e", "v", "a", "t", "i", "o", "n", "=">>, variant |-> "RadarRangeGateElevation", decoder |-> "f64"],
       [key |-> <<"R", "a", "d", "a", "r", "R", "a", "n", "g", "e", "G", "a", "t", "e", "R", "o", "l", "l", "=">>, variant |-> "RadarRangeGateRoll", decoder |-> "f64"],
       [key |-> <<"R", "a", "d", "a", "r", "R", "a", "n", "g", "e", "G", "a", "t", "e", "M", "i", "n", "=">>, variant |-> "RadarRangeGateMin", decoder |-> "f64"],
       [key |-> <<"R", "a", "d", "a", "r", "R", "a", "n", "g", "e", "G", "a", "t", "e", "M", "a", "x", "=">>, variant |-> "RadarRangeGateMax", decoder |-> "f64"],
       [key |-> <<"R", "a", "d", "a", "r", "R", "a", "n", "g", "e", "G", "a", "t", "e", "H", "o", "r", "i", "z", "o", "n", "t", "a", "l", "B", "e", "a", "m", "w", "i", "d", "t", "h", "=">>, variant |-> "RadarRangeGateHorizontalBeamwidth", decoder |-> "f64"],
       [key |-> <<"R", "a", "d", "a", "r", "R", "a", "n", "g", "e", "G", "a", "t", "e", "V", "e", "r", "t", "i", "c", "a", "l", "B", "e", "a", "m", "w", "i", "d", "t", "h", "=">>, variant |-> "RadarRangeGateVerticalBeamwidth", decoder |-> "f64"],
       [key |-> <<"L", "o", "c", "k", "e", "d", "T", "a", "r", "g", "e", "t", "M", "o", "d", "e", "=">>, variant |-> "LockedTargetMode", decoder |-> "u64"],
       [key |-> <<"L", "o", "c", "k", "e", "d", "T", "a", "r", "g", "e", "t", "E", "l", "e", "v", "a", "t", "i", "o", "n", "=">>, variant |-> "LockedTargetElevation", decoder |-> "f64"],
       [key |-> <<"L", "o", "c", "k", "e", "d", "T", "a", "r", "g", "e", "t", "R", "a", "n", "g", "e", "=">>, variant |-> "LockedTargetRange", decoder |-> "f64"],
       [key |-> <<"E", "n", "g", "a", "g", "e", "m", "e", "n", "t", "M", "o", "d", "e", "=">>, variant |-> "EngagementMode", decoder |-> "u64"],
       [key |-> <<"E", "n", "g", "a", "g", "e", "m", "e", "n", "t", "M", "o", "d", "e", "2", "=">>, variant |-> "EngagementMode2", decoder |-> "u64"],
       [key |-> <<"E", "n", "g", "a", "g", "e", "m", "e", "n", "t", "R", "a", "n", "g", "e", "=">>, variant |-> "EngagementRange", decoder |-> "f64"],
       [key |-> <<"E", "n", "g", "a", "g", "e", "m", "e", "n", "t", "R", "a", "n", "g", "e", "2", "=">>, variant |-> "EngagementRange2", decoder |-> "f64"],
       [key |-> <<"V", "e", "r", "t", "i", "c", "a", "l", "E", "n", "g", "a", "g", "e", "m", "e", "n", "t", "R", "a", "n", "g", "e", "=">>, variant |-> "VerticalEngagementRange", decoder |-> "f64"],
       [key |-> <<"V", "e", "r", "t", "i", "c", "a", "l", "E", "n", "g", "a", "g", "e", "m", "e", "n", "t", "R", "a", "n", "g", "e", "2", "=">>, variant |-> "VerticalEngagementRange2", decoder |-> "f64"],
       [key |-> <<"R", "o", "l", "l", "C", "o", "n", "t", "r", "o", "l", "I", "n", "p", "u", "t", "=">>, variant |-> "RollControlInput", decoder |-> "f64"],
       [key |-> <<"P", "i", "t", "c", "h", "C", "o", "n", "t", "r", "o", "l", "I", "n", "p", "u", "t", "=">>, variant |-> "PitchControlInput", decoder |-> "f64"],
       [key |-> <<"Y", "a", "w", "C", "o", "n", "t", "r", "o", "l", "I", "n", "p", "u", "t", "=">>, variant |-> "YawControlInput", decoder |-> "f64"],
       [key |-> <<"R", "o", "l", "l", "C", "o", "n", "t", "r", "o", "l", "P", "o", "s", "i", "t", "i", "o", "n", "=">>, variant |-> "RollControlPosition", decoder |-> "f64"],
       [key |-> <<"P", "i", "t", "c", "h", "C", "o", "n", "t", "r", "o", "l", "P", "o", "s", "i", "t", "i", "o", "n", "=">>, variant |-> "PitchControlPosition", decoder |-> "f64"],
       [key |-> <<"Y", "a", "w", "C", "o", "n", "t", "r", "o", "l", "P", "o", "s", "i", "t", "i", "o", "n", "=">>, variant |-> "YawControlPosition", decoder |-> "f64"],
       [key |-> <<"R", "o", "l", "l", "T", "r", "i", "m", "T", "a", "b", "=">>, variant |-> "RollTrimTab", decoder |-> "f64"],
       [key |-> <<"P", "i", "t", "c", "h", "T", "r", "i", "m", "T", "a", "b", "=">>, variant |-> "PitchTrimTab", decoder |-> "f64"],
       [key |-> <<"Y", "a", "w", "T", "r", "i", "m", "T", "a", "b", "=">>, variant |-> "YawTrimTab", decoder |-> "f64"],
       [key |-> <<"A", "i", "l", "e", "r", "o", "n", "L", "e", "f", "t", "=">>, variant |-> "AileronLeft", decoder |-> "f64"],
       [key |-> <<"A", "i", "l", "e", "r", "o", "n", "R", "i", "g", "h", "t", "=">>, variant |-> "AileronRight", decoder |-> "f64"],
       [key |-> <<"E", "l", "e", "v", "a", "t", "o", "r", "=">>, variant |-> "Elevator", decoder |-> "f64"],
       [key |-> <<"R", "u", "d", "d", "e", "r", "=">>, variant |-> "Rudder", decoder |-> "f64"],
       [key |-> <<"P", "i", "l", "o", "t", "H", "e", "a", "d", "R", "o", "l", "l", "=">>, variant |-> "PilotHeadRoll", decoder |-> "f64"],
       [key |-> <<"P", "i", "l", "o", "t", "H", "e", "a", "d", "P", "i", "t", "c", "h", "=">>, variant |-> "PilotHeadPitch", decoder |-> "f64"],
       [key |-> <<"P", "i", "l", "o", "t", "H", "e", "a", "d", "Y", "a", "w", "=">>, variant |-> "PilotHeadYaw", decoder |-> "f64"],
       [key |-> <<"V", "e", "r", "t", "i", "c", "a", "l", "G", "F", "o", "r", "c", "e", "=">>, variant |-> "VerticalGForce", decoder |-> "f64"],
       [key |-> <<"L", "o", "n", "g", "i", "t", "u", "d", "i", "n", "a", "l", "G", "F", "o", "r", "c", "e", "=">>, variant |-> "LongitudinalGForce", decoder |-> "f64"],
       [key |-> <<"L", "a", "t", "e", "r", "a", "l", "G", "F", "o", "r", "c", "e", "=">>, variant |-> "LateralGForce", decoder |-> "f64"],
       [key |-> <<"T", "r", "i", "g", "g", "e", "r", "P", "r", "e", "s", "s", "e", "d", "=">>, variant |-> "TriggerPressed", decoder |-> "bool1or10"],
       [key |-> <<"E", "N", "L", "=">>, variant |-> "Enl", decoder |-> "f64"],
       [key |-> <<"H", "e", "a", "r", "t", "R", "a", "t", "e", "=">>, variant |-> "HeartRate", decoder |-> "u64"],
       [key |-> <<"S", "p", "O", "2", "=">>, variant |-> "SpO2", decoder |-> "f64"]
    >>

RECURSIVE try_collect(_, _)
try_collect(results, acc) ==
    IF results = <<>> THEN Ok(acc)
    ELSE IF ~Head(results).ok THEN Head(results)
    ELSE try_collect(Tail(results), Append(acc, Head(results).val))

seq_range(s) == {s[i] : i \in 1..Len(s)}

decode_value(decoder, value) ==
    CASE decoder = "text" -> Ok(value)
      [] decoder = "id" -> parse_object_id(value)
      [] decoder = "u64" -> u64_from_str_radix(value, 10)
      [] decoder = "f64" -> f64_from_str(value)
      [] decoder = "bool1" -> Ok(value = <<"1">>)
      [] decoder = "bool1or10" -> Ok(value = <<"1">> \/ value = <<"1", ".", "0">>)
      [] decoder = "coords" -> Coords_from_str(value)
      [] decoder = "color" -> Color_from_str(value)
      [] decoder = "tags" ->
            LET tokens == split(value, "+")
                r == try_collect([i \in 1..Len(tokens) |-> Tag_from_str(tokens[i])], <<>>)
            IN IF r.ok THEN Ok(seq_range(r.val)) ELSE r

\* ------------------------------------------------------------------------
\* enum ObjectProperty: the example field of the doc comments, with the
\* variant that the example names (the doc comment of a family of variants,
\* such as FuelWeight .. FuelWeight9, shows one member of the family)
\* ------------------------------------------------------------------------
ObjectPropertyDocs ==
    <<
       [field |-> <<"N", "a", "m", "e", "=", "F", "-", "1", "6", "C", "-", "5", "2">>, variant |-> "Name"],
       [field |-> <<"T", "y", "p", "e", "=", "A", "i", "r", "+", "F", "i", "x", "e", "d", "W", "i", "n", "g">>, variant |-> "Type"],
       [field |-> <<"P", "a", "r", "e", "n", "t", "=", "2", "D", "5", "0", "A", "7">>, variant |-> "Parent"],
       [field |-> <<"N", "e", "x", "t", "=", "4", "0", "F", "1">>, variant |-> "Next"],
       [field |-> <<"C", "a", "l", "l", "S", "i", "g", "n", "=", "J", "e", "s", "t", "e", "r">>, variant |-> "Callsign"],
       [field |-> <<"R", "e", "g", "i", "s", "t", "r", "a", "t", "i", "o", "n", "=", "N", "5", "9", "4", "E", "X">>, variant |-> "Registration"],
       [field |-> <<"S", "q", "u", "a", "w", "k", "=", "1", "2", "0", "0">>, variant |-> "Squawk"],
       [field |-> <<"I", "C", "A", "O", "2", "4", "=", "A", "7", "2", "E", "C", "8">>, variant |-> "Icao24"],
       [field |-> <<"P", "i", "l", "o", "t", "=", "I", "c", "e", "m", "a", "n">>, variant |-> "Pilot"],
       [field |-> <<"G", "r", "o", "u", "p", "=", "S", "p", "r", "i", "n", "g", "f", "i", "e", "l", "d">>, variant |-> "Group"],
       [field |-> <<"C", "o", "u", "n", "t", "r", "y", "=", "u", "s">>, variant |-> "Country"],
       [field |-> <<"C", "o", "a", "l", "i", "t", "i", "o", "n", "=", "A", "l", "l", "i", "e", "s">>, variant |-> "Coalition"],
       [field |-> <<"C", "o", "l", "o", "r", "=", "B", "l", "u", "e">>, variant |-> "Color"],
       [field |-> <<"S", "h", "a", "p", "e", "=", "R", "o", "t", "o", "r", "c", "r", "a", "f", "t", ".", "B", "e", "l", "l", " ", "2", "0", "6", ".", "o", "b", "j">>, variant |-> "Shape"],
       [field |-> <<"D", "e", "b", "u", "g", "=", "O", "b", "j", "e", "c", "t", "H", "a", "n", "d", "l", "e", ":", "0", "x", "2", "3", "7", "C", "B", "9">>, variant |-> "Debug"],
       [field |-> <<"L", "a", "b", "e", "l", "=", "L", "e", "a", "d", " ", "a", "i", "r", "c", "r", "a", "f", "t">>, variant |-> "Label"],
       [field |-> <<"F", "o", "c", "u", "s", "e", "d", "T", "a", "r", "g", "e", "t", "=", "3", "0", "0", "1", "2", "0", "0">>, variant |-> "FocusedTarget"],
       [field |-> <<"L", "o", "c", "k", "e", "d", "T", "a", "r", "g", "e", "t", "2", "=", "3", "0", "0", "1", "2", "0", "0">>, variant |-> "LockedTarget2"],
       [field |-> <<"I", "m", "p", "o", "r", "t", "a", "n", "c", "e", "=", "1">>, variant |-> "Importance"],
       [field |-> <<"S", "l", "o", "t", "=", "0">>, variant |-> "Slot"],
       [field |-> <<"D", "i", "s", "a", "b", "l", "e", "d", "=", "1">>, variant |-> "Disabled"],
       [field |-> <<"V", "i", "s", "i", "b", "l", "e", "=", "0", ".", "3", "3", "3">>, variant |-> "Visible"],
       [field |-> <<"L", "e", "n", "g", "t", "h", "=", "2", "0", ".", "5">>, variant |-> "Length"],
       [field |-> <<"W", "i", "d", "t", "h", "=", "1", "0", ".", "2", "7">>, variant |-> "Width"],
       [field |-> <<"R", "a", "d", "i", "u", "s", "=", "8", "2">>, variant |-> "Radius"],
       [field |-> <<"I", "A", "S", "=", "6", "9", ".", "4", "4", "4", "4">>, variant |-> "Ias"],
       [field |-> <<"C", "A", "S", "=", "2", "5", "0">>, variant |-> "Cas"],
       [field |-> <<"T", "A", "S", "=", "7", "5">>, variant |-> "Tas"],
       [field |-> <<"M", "a", "c", "h", "=", "0", ".", "7", "5">>, variant |-> "Mach"],
       [field |-> <<"A", "O", "A", "=", "1", "5", ".", "7">>, variant |-> "Aoa"],
       [field |-> <<"A", "O", "S", "=", "5", ".", "2">>, variant |-> "Aos"],
       [field |-> <<"A", "G", "L", "=", "1", "5", "0", "1", ".", "2">>, variant |-> "Agl"],
       [field |-> <<"H", "D", "G", "=", "1", "8", "5", ".", "3">>, variant |-> "Hdg"],
       [field |-> <<"T", "h", "r", "o", "t", "t", "l", "e", "=", "0", ".", "7", "5">>, variant |-> "Throttle"],
       [field |-> <<"A", "f", "t", "e", "r", "b", "u", "r", "n", "e", "r", "=", "1">>, variant |-> "Afterburner"],
       [field |-> <<"A", "i", "r", "B", "r", "a", "k", "e", "s", "=", "0">>, variant |-> "AirBrakes"],
       [field |-> <<"F", "l", "a", "p", "s", "=", "0", ".", "4">>, variant |-> "Flaps"],
       [field |-> <<"L", "a", "n", "d", "i", "n", "g", "G", "e", "a", "r", "=", "1">>, variant |-> "LandingGear"],
       [field |-> <<"L", "a", "n", "d", "i", "n", "g", "G", "e", "a", "r", "H", "a", "n", "d", "l", "e", "=", "0">>, variant |-> "LandingGearHandle"],
       [field |-> <<"T", "a", "i", "l", "h", "o", "o", "k", "=", "1">>, variant |-> "Tailhook"],
       [field |-> <<"P", "a", "r", "a", "c", "h", "u", "t", "e", "=", "0">>, variant |-> "Parachute"],
       [field |-> <<"D", "r", "a", "g", "C", "h", "u", "t", "e", "=", "1">>, variant |-> "DragChute"],
       [field |-> <<"F", "u", "e", "l", "W", "e", "i", "g", "h", "t", "4", "=", "8", "7", "5", "0">>, variant |-> "FuelWeight4"],
       [field |-> <<"F", "u", "e", "l", "V", "o", "l", "u", "m", "e", "=", "7", "5">>, variant |-> "FuelVolume"],
       [field |-> <<"F", "u", "e", "l", "F", "l", "o", "w", "W", "e", "i", "g", "h", "t", "2", "=", "3", "8", ".", "0", "8">>, variant |-> "FuelFlowWeight2"],
       [field |-> <<"F", "u", "e", "l", "F", "l", "o", "w", "V", "o", "l", "u", "m", "e", "2", "=", "5", "3", ".", "2">>, variant |-> "FuelFlowVolume2"],
       [field |-> <<"R", "a", "d", "a", "r", "M", "o", "d", "e", "=", "1">>, variant |-> "RadarMode"],
       [field |-> <<"R", "a", "d", "a", "r", "A", "z", "i", "m", "u", "t", "h", "=", "-", "2", "0">>, variant |-> "RadarAzimuth"],
       [field |-> <<"R", "a", "d", "a", "r", "E", "l", "e", "v", "a", "t", "i", "o", "n", "=", "1", "5">>, variant |-> "RadarElevation"],
       [field |-> <<"R", "a", "d", "a", "r", "R", "o", "l", "l", "=", "-", "4", "5">>, variant |-> "RadarRoll"],
       [field |-> <<"R", "a", "d", "a", "r", "R", "a", "n", "g", "e", "=", "2", "9", "6", "3", "2", "0">>, variant |-> "RadarRange"],
       [field |-> <<"R", "a", "d", "a", "r", "H", "o", "r", "i", "z", "o", "n", "t", "a", "l", "B", "e", "a", "m", "w", "i", "d", "t", "h", "=", "4", "0">>, variant |-> "RadarHorizontalBeamwidth"],
       [field |-> <<"R", "a", "d", "a", "r", "V", "e", "r", "t", "i", "c", "a", "l", "B", "e", "a", "m", "w", "i", "d", "t", "h", "=", "1", "2">>, variant |-> "RadarVerticalBeamwidth"],
       [field |-> <<"R", "a", "d", "a", "r", "R", "a", "n", "g", "e", "G", "a", "t", "e", "A", "z", "i", "m", "u", "t", "h", "=", "-", "2", "0">>, variant |-> "RadarRangeGateAzimuth"],
       [field |-> <<"R", "a", "d", "a", "r", "R", "a", "n", "g", "e", "G", "a", "t", "e", "E", "l", "e", "v", "a", "t", "i", "o", "n", "=", "1", "5">>, variant |-> "RadarRangeGateElevation"],
       [field |-> <<"R", "a", "d", "a", "r", "R", "a", "n", "g", "e", "G", "a", "t", "e", "R", "o", "l", "l", "=", "-", "4", "5">>, variant |-> "RadarRangeGateRoll"],
       [field |-> <<"R", "a", "d", "a", "r", "R", "a", "n", "g", "e", "G", "a", "t", "e", "M", "i", "n", "=", "3", "7", "0", "4", "0">>, variant |-> "RadarRangeGateMin"],
       [field |-> <<"R", "a", "d", "a", "r", "R", "a", "n", "g", "e", "G", "a", "t", "e", "M", "a", "x", "=", "7", "4", "0", "8", "0">>, variant |-> "RadarRangeGateMax"],
       [field |-> <<"R", "a", "d", "a", "r", "R", "a", "n", "g", "e", "G", "a", "t", "e", "H", "o", "r", "i", "z", "o", "n", "t", "a", "l", "B", "e", "a", "m", "w", "i", "d", "t", "h", "=", "4", "0">>, variant |-> "RadarRangeGateHorizontalBeamwidth"],
       [field |-> <<"R", "a", "d", "a", "r", "R", "a", "n", "g", "e", "G", "a", "t", "e", "V", "e", "r", "t", "i", "c", "a", "l", "B", "e", "a", "m", "w", "i", "d", "t", "h", "=", "1", "2">>, variant |-> "RadarRangeGateVerticalBeamwidth"],
       [field |-> <<"L", "o", "c", "k", "e", "d", "T", "a", "r", "g", "e", "t", "M", "o", "d", "e", "=", "1">>, variant |-> "LockedTargetMode"],
       [field |-> <<"L", "o", "c", "k", "e", "d", "T", "a", "r", "g", "e", "t", "A", "z", "i", "m", "u", "t", "h", "=", "1", "4", ".", "5">>, variant |-> "LockedTargetAzimuth"],
       [field |-> <<"L", "o", "c", "k", "e", "d", "T", "a", "r", "g", "e", "t", "E", "l", "e", "v", "a", "t", "i", "o", "n", "=", "0", ".", "9">>, variant |-> "LockedTargetElevation"],
       [field |-> <<"L", "o", "c", "k", "e", "d", "T", "a", "r", "g", "e", "t", "R", "a", "n", "g", "e", "=", "1", "7", "3", "0", "3">>, variant |-> "LockedTargetRange"],
       [field |-> <<"E", "n", "g", "a", "g", "e", "m", "e", "n", "t", "M", "o", "d", "e", "=", "1">>, variant |-> "EngagementMode"],
       [field |-> <<"E", "n", "g", "a", "g", "e", "m", "e", "n", "t", "R", "a", "n", "g", "e", "=", "2", "5", "0", "0">>, variant |-> "EngagementRange"],
       [field |-> <<"V", "e", "r", "t", "i", "c", "a", "l", "E", "n", "g", "a", "g", "e", "m", "e", "n", "t", "R", "a", "n", "g", "e", "=", "1", "8", "0", "0">>, variant |-> "VerticalEngagementRange"],
       [field |-> <<"P", "i", "t", "c", "h", "C", "o", "n", "t", "r", "o", "l", "I", "n", "p", "u", "t", "=", "0", ".", "4", "1">>, variant |-> "PitchControlInput"],
       [field |-> <<"P", "i", "t", "c", "h", "C", "o", "n", "t", "r", "o", "l", "P", "o", "s", "i", "t", "i", "o", "n", "=", "0", ".", "3">>, variant |-> "PitchControlPosition"],
       [field |-> <<"P", "i", "t", "c", "h", "T", "r", "i", "m", "T", "a", "b", "=", "-", "0", ".", "1", "5">>, variant |-> "PitchTrimTab"],
       [field |-> <<"E", "l", "e", "v", "a", "t", "o", "r", "=", "0", ".", "1", "5">>, variant |-> "Elevator"],
       [field |-> <<"P", "i", "l", "o", "t", "H", "e", "a", "d", "P", "i", "t", "c", "h", "=", "1", "2">>, variant |-> "PilotHeadPitch"],
       [field |-> <<"V", "e", "r", "t", "i", "c", "a", "l", "G", "F", "o", "r", "c", "e", "=", "3", ".", "4">>, variant |-> "VerticalGForce"],
       [field |-> <<"T", "r", "i", "g", "g", "e", "r", "P", "r", "e", "s", "s", "e", "d", "=", "1">>, variant |-> "TriggerPressed"],
       [field |-> <<"E", "N", "L", "=", "0", ".", "0", "2">>, variant |-> "Enl"],
       [field |-> <<"H", "e", "a", "r", "t", "R", "a", "t", "e", "=", "7", "2">>, variant |-> "HeartRate"],
       [field |-> <<"S", "p", "O", "2", "=", "0", ".", "9", "5">>, variant |-> "SpO2"] >>

\* (mutation of ObjectProperty_from_str: an unknown key is an error)
ObjectProperty_from_str_strict(s) ==
    LET hits == {i \in 1..Len(ObjectPropertyTable) :
                    starts_with(s, ObjectPropertyTable[i].key)}
    IN IF hits # {}
       THEN LET e == ObjectPropertyTable[CHOOSE i \in hits : \A j \in hits : i <= j]
                r == decode_value(e.decoder, after_prefix(s, e.key))
            IN IF r.ok THEN Ok([variant |-> e.variant, value |-> r.val]) ELSE r
       ELSE LET kv == split_once(s, "=")
            IN IF ~kv.some THEN Err([err |-> "MalformedObjectProperty", text |-> s])
               ELSE Err([err |-> "MalformedObjectProperty", text |-> s])

ObjectProperty_from_str(s) ==
    LET hits == {i \in 1..Len(ObjectPropertyTable) :
                    starts_with(s, ObjectPropertyTable[i].key)}
    IN IF hits # {}
       THEN LET e == ObjectPropertyTable[CHOOSE i \in hits : \A j \in hits : i <= j]
                r == decode_value(e.decoder, after_prefix(s, e.key))
            IN IF r.ok THEN Ok([variant |-> e.variant, value |-> r.val]) ELSE r
       ELSE LET kv == split_once(s, "=")
            IN IF ~kv.some THEN Err([err |-> "MalformedObjectProperty", text |-> s])
               ELSE Ok([variant |-> "Unknown", name |-> kv.v[1], value |-> kv.v[2]])

\* ------------------------------------------------------------------------
\* GlobalProperty::from_str (record/global_property.rs)
\* ------------------------------------------------------------------------
GlobalPropertyTable ==
    << [key |-> <<"D", "a", "t", "a", "S", "o", "u", "r", "c", "e", "=">>, variant |-> "DataSource", decoder |-> "text"],
       [key |-> <<"D", "a", "t", "a", "R", "e", "c", "o", "r", "d", "e", "r", "=">>, variant |-> "DataRecorder", decoder |-> "text"],
       [key |-> <<"R", "e", "f", "e", "r", "e", "n", "c", "e", "T", "i", "m", "e", "=">>, variant |-> "ReferenceTime", decoder |-> "time"],
       [key |-> <<"R", "e", "c", "o", "r", "d", "i", "n", "g", "T", "i", "m", "e", "=">>, variant |-> "RecordingTime", decoder |-> "time"],
       [key |-> <<"A", "u", "t", "h", "o", "r", "=">>, variant |-> "Author", decoder |-> "text"],
       [key |-> <<"T", "i", "t", "l", "e", "=">>, variant |-> "Title", decoder |-> "text"],
       [key |-> <<"C", "a", "t", "e", "g", "o", "r", "y", "=">>, variant |-> "Category", decoder |-> "text"],
       [key |-> <<"B", "r", "i", "e", "f", "i", "n", "g", "=">>, variant |-> "Briefing", decoder |-> "text"],
       [key |-> <<"D", "e", "b", "r", "i", "e", "f", "i", "n", "g", "=">>, variant |-> "Debriefing", decoder |-> "text"],
       [key |-> <<"C", "o", "m", "m", "e", "n", "t", "s", "=">>, variant |-> "Comments", decoder |-> "text"],
       [key |-> <<"R", "e", "f", "e", "r", "e", "n", "c", "e", "L", "o", "n", "g", "i", "t", "u", "d", "e", "=">>, variant |-> "ReferenceLongitude", decoder |-> "f64"],
       [key |-> <<"R", "e", "f", "e", "r", "e", "n", "c", "e", "L", "a", "t", "i", "t", "u", "d", "e", "=">>, variant |-> "ReferenceLatitude", decoder |-> "f64"] >>

GlobalProperty_from_str(s) ==
    LET hits == {i \in 1..Len(GlobalPropertyTable) :
                    starts_with(s, GlobalPropertyTable[i].key)}
    IN IF hits # {}
       THEN LET e == GlobalPropertyTable[CHOOSE i \in hits : \A j \in hits : i <= j]
                value == after_prefix(s, e.key)
                r == IF e.decoder = "time" THEN rfc3339_parse(value)
                     ELSE decode_value(e.decoder, value)
            IN IF r.ok THEN Ok([variant |-> e.variant, value |-> r.val]) ELSE r
       ELSE LET kv == split_once(s, "=")
            IN IF ~kv.some THEN Err([err |-> "MalformedGlobalProperty", text |-> s])
               ELSE Ok([variant |-> "Unknown", name |-> kv.v[1], value |-> kv.v[2]])

\* ------------------------------------------------------------------------
\* Event::from_str and TimeoutEvent::from_tokens_iter (record/event.rs)
\* ------------------------------------------------------------------------
TimeoutKeys ==
    << [key |-> <<"S", "o", "u", "r", "c", "e", "I", "d", ":">>, field |-> "source_id"],
       [key |-> <<"A", "m", "m", "o", "T", "y", "p", "e", ":">>, field |-> "ammo_type"],
       [key |-> <<"A", "m", "m", "o", "C", "o", "u", "n", "t", ":">>, field |-> "ammo_count"],
       [key |-> <<"B", "u", "l", "l", "s", "e", "y", "e", ":">>, field |-> "bullseye"],
       [key |-> <<"T", "a", "r", "g", "e", "t", "I", "d", ":">>, field |-> "target_id"],
       [key |-> <<"I", "n", "t", "e", "n", "d", "e", "d", "T", "a", "r", "g", "e", "t", ":">>, field |-> "intended_target"],
       [key |-> <<"O", "u", "t", "c", "o", "m", "e", ":">>, field |-> "outcome"] >>

TimeoutDefault == [f \in {TimeoutKeys[i].field : i \in 1..7} |-> None]

\* (mutation of timeout_step: a field that is set is not set again)
timeout_step_keep_first(ev, token) ==
    LET hits == {i \in 1..7 : starts_with(token, TimeoutKeys[i].key)}
    IN IF hits = {} THEN ev
       ELSE LET e == TimeoutKeys[CHOOSE i \in hits : \A j \in hits : i <= j]
            IN IF ev[e.field].some THEN ev
               ELSE [ev EXCEPT ![e.field] = Some(after_prefix(token, e.key))]

timeout_step(ev, token) ==
    LET hits == {i \in 1..7 : starts_with(token, TimeoutKeys[i].key)}
    IN IF hits = {} THEN ev
       ELSE LET e == TimeoutKeys[CHOOSE i \in hits : \A j \in hits : i <= j]
            IN [ev EXCEPT ![e.field] = Some(after_prefix(token, e.key))]

RECURSIVE TimeoutEvent_fold(_, _)
TimeoutEvent_fold(ev, tokens) ==
    IF tokens = <<>> THEN ev
    ELSE TimeoutEvent_fold(timeout_step(ev, Head(tokens)), Tail(tokens))

TimeoutEvent_from_tokens_iter(tokens) == Ok(TimeoutEvent_fold(TimeoutDefault, tokens))

\* the match arms of Event::from_str: which fields each event type reads
EventTable ==
    << [name |-> <<"E", "v", "e", "n", "t", "=", "M", "e", "s", "s", "a", "g", "e">>, variant |-> "Message", id |-> TRUE, text |-> TRUE],
       [name |-> <<"E", "v", "e", "n", "t", "=", "B", "o", "o", "k", "m", "a", "r", "k">>, variant |-> "Bookmark", id |-> FALSE, text |-> TRUE],
       [name |-> <<"E", "v", "e", "n", "t", "=", "D", "e", "b", "u", "g">>, variant |-> "Debug", id |-> FALSE, text |-> TRUE],
       [name |-> <<"E", "v", "e", "n", "t", "=", "L", "e", "f", "t", "A", "r", "e", "a">>, variant |-> "LeftArea", id |-> TRUE, text |-> FALSE],
       [name |-> <<"E", "v", "e", "n", "t", "=", "D", "e", "s", "t", "r", "o", "y", "e", "d">>, variant |-> "Destroyed", id |-> TRUE, text |-> FALSE],
       [name |-> <<"E", "v", "e", "n", "t", "=", "T", "a", "k", "e", "n", "O", "f", "f">>, variant |-> "TakenOff", id |-> TRUE, text |-> TRUE],
       [name |-> <<"E", "v", "e", "n", "t", "=", "L", "a", "n", "d", "e", "d">>, variant |-> "Landed", id |-> TRUE, text |-> TRUE] >>

Event_from_str(s) ==
    LET tokens == split(s, "|")
        event_type == tokens[1]
        malformed == Err([err |-> "MalformedEvent", text |-> s])
        hits == {i \in 1..Len(EventTable) : EventTable[i].name = event_type}
    IN IF hits # {}
       THEN LET e == EventTable[CHOOSE i \in hits : TRUE]
                need == (IF e.id THEN 1 ELSE 0) + (IF e.text THEN 1 ELSE 0)
                id == IF e.id THEN parse_object_id(tokens[2]) ELSE Ok(0)
                tpos == IF e.id THEN 3 ELSE 2
            IN IF Len(tokens) < 2 THEN malformed
               ELSE IF ~id.ok THEN id
               ELSE IF Len(tokens) < 1 + need THEN malformed
               ELSE Ok([variant |-> e.variant,
                        id |-> IF e.id THEN Some(id.val) ELSE None,
                        text |-> IF e.text THEN Some(tokens[tpos]) ELSE None])
       ELSE IF event_type = <<"E", "v", "e", "n", "t", "=", "T", "i", "m", "e", "o", "u", "t">>
       THEN LET r == TimeoutEvent_from_tokens_iter(Tail(tokens))
            IN Ok([variant |-> "Timeout", timeout |-> r.val])
       ELSE LET tm == split_once(s, "|")
                ty == IF tm.some THEN tm.v[1] ELSE s
                message == IF tm.some THEN tm.v[2] ELSE <<>>
                eq == split_once(ty, "=")
            IN IF ~eq.some THEN malformed
               ELSE Ok([variant |-> "Unknown", name |-> eq.v[2], text |-> Some(message)])

\* ------------------------------------------------------------------------
\* Record::from_str (record/mod.rs)
\* ------------------------------------------------------------------------
\* (mutation of Record_from_str: the head compared as a number with 0)
Record_from_str_numeric_head(s) ==
    IF starts_with(s, <<"-">>)
    THEN LET id == parse_object_id(after_prefix(s, <<"-">>))
         IN IF id.ok THEN Ok([kind |-> "Remove", id |-> id.val]) ELSE id
    ELSE IF starts_with(s, <<"#">>)
    THEN LET t == f64_from_str(after_prefix(s, <<"#">>))
         IN IF t.ok THEN Ok([kind |-> "Frame", time |-> t.val]) ELSE t
    ELSE LET sp == split_once(s, ",")
         IN IF ~sp.some THEN Err([err |-> "AcmiReaderEol"])
            ELSE LET id == sp.v[1]
                     rest == sp.v[2]
                 IN IF parse_object_id(id) = Ok(0)
                    THEN IF starts_with(rest, <<"E", "v", "e", "n", "t", "=">>)
                         THEN LET ev == Event_from_str(rest)
                              IN IF ev.ok THEN Ok([kind |-> "Event", event |-> ev.val])
                                 ELSE ev
                         ELSE LET tokens == parse_comma(rest)
                                  gp == try_collect(
                                            [i \in 1..Len(tokens) |->
                                                GlobalProperty_from_str(tokens[i])], <<>>)
                              IN IF gp.ok
                                 THEN Ok([kind |-> "GlobalProperties", props |-> gp.val])
                                 ELSE gp
                    ELSE LET oid == parse_object_id(id)
                             tokens == parse_comma(rest)
                             op == try_collect(
                                       [i \in 1..Len(tokens) |->
                                           ObjectProperty_from_str(tokens[i])], <<>>)
                         IN IF ~oid.ok THEN oid
                            ELSE IF op.ok
                            THEN Ok([kind |-> "Update", id |-> oid.val, props |-> op.val])
                            ELSE op

Record_from_str(s) ==
    IF starts_with(s, <<"-">>)
    THEN LET id == parse_object_id(after_prefix(s, <<"-">>))
         IN IF id.ok THEN Ok([kind |-> "Remove", id |-> id.val]) ELSE id
    ELSE IF starts_with(s, <<"#">>)
    THEN LET t == f64_from_str(after_prefix(s, <<"#">>))
         IN IF t.ok THEN Ok([kind |-> "Frame", time |-> t.val]) ELSE t
    ELSE LET sp == split_once(s, ",")
         IN IF ~sp.some THEN Err([err |-> "AcmiReaderEol"])
            ELSE LET id == sp.v[1]
                     rest == sp.v[2]
                 IN IF id = <<"0">>
                    THEN IF starts_with(rest, <<"E", "v", "e", "n", "t", "=">>)
                         THEN LET ev == Event_from_str(rest)
                              IN IF ev.ok THEN Ok([kind |-> "Event", event |-> ev.val])
                                 ELSE ev
                         ELSE LET tokens == parse_comma(rest)
                                  gp == try_collect(
                                            [i \in 1..Len(tokens) |->
                                                GlobalProperty_from_str(tokens[i])], <<>>)
                              IN IF gp.ok
                                 THEN Ok([kind |-> "GlobalProperties", props |-> gp.val])
                                 ELSE gp
                    ELSE LET oid == parse_object_id(id)
                             tokens == parse_comma(rest)
                             op == try_collect(
                                       [i \in 1..Len(tokens) |->
                                           ObjectProperty_from_str(tokens[i])], <<>>)
                         IN IF ~oid.ok THEN oid
                            ELSE IF op.ok
                            THEN Ok([kind |-> "Update", id |-> oid.val, props |-> op.val])
                            ELSE op

\* ------------------------------------------------------------------------
\* hash_password (tcp.rs): CRC-32/ISO-HDLC over the UTF-16LE bytes.
\* A 32-bit word is kept as its two 16-bit halves [hi, lo].
\* ------------------------------------------------------------------------
RECURSIVE xor_bits(_, _, _)
\* bitwise exclusive or of two naturals below 2^n
xor_bits(a, b, n) ==
    IF n = 0 THEN 0
    ELSE ((a + b) % 2) + 2 * xor_bits(a \div 2, b \div 2, n - 1)

word_xor(x, y) == [hi |-> xor_bits(x.hi, y.hi, 16), lo |-> xor_bits(x.lo, y.lo, 16)]

\* logical shift right by one
word_shr(x) == [hi |-> x.hi \div 2, lo |-> (x.lo \div 2) + 32768 * (x.hi % 2)]

word_ones == [hi |-> 65535, lo |-> 65535]

\* 0xEDB88320, the reflected form of the polynomial 0x04C11DB7
CrcPolyHigh == 60856
CrcPolyLow == 33568
crc_poly == [hi |-> CrcPolyHigh, lo |-> CrcPolyLow]

RECURSIVE crc_shift(_, _)
\* n steps of the bitwise division
crc_shift(w, n) ==
    IF n = 0 THEN w
    ELSE IF w.lo % 2 = 1 THEN crc_shift(word_xor(word_shr(w), crc_poly), n - 1)
    ELSE crc_shift(word_shr(w), n - 1)

crc_byte(w, b) == crc_shift(word_xor(w, [hi |-> 0, lo |-> b]), 8)

RECURSIVE crc_update(_, _)
\* the register after the first k bytes
crc_update(bytes, k) ==
    IF k = 0 THEN word_ones ELSE crc_byte(crc_update(bytes, k - 1), bytes[k])

\* Crc::<u32>::checksum: init 0xFFFFFFFF, final xor 0xFFFFFFFF
crc32_checksum(bytes) == word_xor(crc_update(bytes, Len(bytes)), word_ones)

\* str::encode_utf16 of a text given as Unicode scalar values
RECURSIVE encode_utf16(_)
encode_utf16(cps) ==
    IF cps = <<>> THEN <<>>
    ELSE LET c == Head(cps)
         IN (IF c < 65536 THEN <<c>>
             ELSE <<55296 + ((c - 65536) \div 1024), 56320 + ((c - 65536) % 1024)>>)
            \o encode_utf16(Tail(cps))

\* (mutation of utf16_bytes: the high byte pushed first)
RECURSIVE utf16_bytes_high_first(_)
utf16_bytes_high_first(units) ==
    IF units = <<>> THEN <<>>
    ELSE <<(Head(units) \div 256) % 256, Head(units) % 256>>
             \o utf16_bytes_high_first(Tail(units))

\* the loop pushing (c >> 0) as u8 then (c >> 8) as u8
RECURSIVE utf16_bytes(_)
utf16_bytes(units) ==
    IF units = <<>> THEN <<>>
    ELSE <<Head(units) % 256, (Head(units) \div 256) % 256>> \o utf16_bytes(Tail(units))

HexChars == DecDigits \o HexLower

RECURSIVE hex_digits(_, _)
\* the n low hexadecimal digits of v, most significant first
hex_digits(v, n) ==
    IF n = 0 THEN <<>> ELSE Append(hex_digits(v \div 16, n - 1), HexChars[(v % 16) + 1])

\* format!("{:x}"): lowercase hexadecimal, no leading zeros, "0" for zero
format_hex(w) ==
    LET sig == strip_zeros(hex_digits(w.hi, 4) \o hex_digits(w.lo, 4))
    IN IF sig = <<>> THEN <<"0">> ELSE sig

hash_password(password) ==
    format_hex(crc32_checksum(utf16_bytes(encode_utf16(password))))

\* ------------------------------------------------------------------------
\* State
\* ------------------------------------------------------------------------
VARIABLES
    stream,     \* the bytes the peer sends, in order
    pos,        \* index in stream of the next byte the BufStream hands out
    pc,         \* position of the client in connect / try_from_reader / next
    line,       \* next(): the local `line`; parse_header, from_tcp_stream: `buf`
    file_type,  \* parse_header: the local `file_type`
    ctor,       \* result of try_from_reader, None while it has not returned
    results,    \* the values returned by the calls to next(), in call order
    lines,      \* the text handed to Record::from_str by each call (the debug log)
    start,      \* value of pos when the running or last call to next() began
    reads,      \* number of read_line / read_u8 calls that returned
    ioErrs,     \* number of I/O errors the transport has raised
    username,   \* argument of from_tcp_stream
    password,   \* argument of from_tcp_stream, as Unicode scalar values
    outbuf,     \* bytes accepted by write_all and not flushed yet
    wire,       \* bytes flushed to the socket
    writes,     \* number of write_all calls that returned Ok
    handshake,  \* result of connect / from_tcp_stream, None while running
    starts,     \* value of pos at the beginning of each call to next(), in call order
    cancels,    \* number of pending next() futures the caller has dropped
    arg,        \* the text handed to a decoder called on its own
    ret         \* the value that decoder returned, None before the call

vars == <<stream, pos, pc, line, file_type, ctor, results, lines, start, reads, ioErrs,
          username, password, outbuf, wire, writes, handshake, starts, cancels,
          arg, ret>>

hdrVars == <<file_type, ctor>>
callVars == <<results, lines, start, starts>>
argVars == <<username, password>>
outVars == <<outbuf, wire, writes>>
auxVars == <<cancels, arg, ret>>

\* ------------------------------------------------------------------------
\* Bounds
\* ------------------------------------------------------------------------
MaxLines == 3       \* physical lines after the ACMI header
MaxCalls == 4       \* calls to next() in one run
MaxIoErrors == 1    \* I/O errors raised in one run
MaxCancels == 1     \* pending calls to next() dropped in one run
MaxFields == 2      \* property fields after the head of a record line
MaxCoordTokens == 10 \* '|'-separated tokens of a coordinate text
MaxLen == 4         \* characters of a text handed to parse_comma
MaxTimeoutTokens == 3 \* tokens after "Event=Timeout"
MaxReads == 16      \* calls of read_line in one run of the fair reader

\* ------------------------------------------------------------------------
\* AsyncBufReadExt::read_line / AsyncReadExt::read_u8 on the buffered stream
\* ------------------------------------------------------------------------
\* the bytes one read_line call appends: up to and including the first
\* newline, or everything that is left when the stream ends before one
read_line(s, p) ==
    LET n == find_from(s, NL, p)
    IN IF n = 0 THEN SubSeq(s, p, Len(s)) ELSE SubSeq(s, p, n)

\* u8 value of the bytes that occur as header terminator in the inputs
byte_value(c) ==
    CASE c = NUL -> 0
      [] c = NL -> 10
      [] c = "1" -> 49
      [] c = "X" -> 88

\* ------------------------------------------------------------------------
\* tcp.rs: connect and from_tcp_stream, one step per await
\* ------------------------------------------------------------------------
ProtocolLine == <<"X", "t", "r", "a", "L", "i", "b", ".", "S", "t", "r", "e", "a", "m", ".", "0", NL>>
VersionLine == <<"T", "a", "c", "v", "i", "e", "w", ".", "R", "e", "a", "l", "T", "i", "m", "e", "T", "e", "l", "e", "m", "e", "t", "r", "y", ".", "0", NL>>

\* the three checks of the server header
protocol_ok(buf) == buf = ProtocolLine
version_ok(buf) == buf = VersionLine
\* (mutation of eoh_ok: the terminator compared with the character '0')
eoh_ok_ascii_zero(eoh) == eoh = 48
eoh_ok(eoh) == eoh = 0

tcp_fail(e) ==
    /\ handshake' = Some(Err(e))
    /\ pc' = "tcp_failed"

\* TcpStream::connect(addr) in connect()
tcp_connect ==
    /\ pc = "tcp_new"
    /\ \/ pc' = "tcp_protocol" /\ UNCHANGED handshake
       \/ tcp_fail([err |-> "TcpConnect"])
    /\ UNCHANGED <<stream, pos, line, reads, ioErrs, hdrVars, callVars, argVars, auxVars, outVars>>

\* protocol header: read_line, compare, buf.clear()
tcp_read_protocol ==
    /\ pc = "tcp_protocol"
    /\ LET buf == read_line(stream, pos)
       IN /\ pos' = pos + Len(buf)
          /\ IF ~protocol_ok(buf)
             THEN tcp_fail([err |-> "TcpHeaderProtocol", text |-> buf])
             ELSE pc' = "tcp_version" /\ UNCHANGED handshake
    /\ reads' = reads + 1
    /\ UNCHANGED <<stream, line, ioErrs, hdrVars, callVars, argVars, auxVars, outVars>>

\* version header: read_line, compare, buf.clear()
tcp_read_version ==
    /\ pc = "tcp_version"
    /\ LET buf == read_line(stream, pos)
       IN /\ pos' = pos + Len(buf)
          /\ IF ~version_ok(buf)
             THEN tcp_fail([err |-> "TcpHeaderVersion", text |-> buf])
             ELSE pc' = "tcp_hostname" /\ UNCHANGED handshake
    /\ reads' = reads + 1
    /\ UNCHANGED <<stream, line, ioErrs, hdrVars, callVars, argVars, auxVars, outVars>>

\* hostname: read_line, logged only
tcp_read_hostname ==
    /\ pc = "tcp_hostname"
    /\ pos' = pos + Len(read_line(stream, pos))
    /\ pc' = "tcp_eoh"
    /\ reads' = reads + 1
    /\ UNCHANGED <<stream, line, ioErrs, hdrVars, callVars, argVars, auxVars, outVars, handshake>>

\* (mutation of tcp_read_eoh: the client starts to write without reading the
\* terminator byte)
tcp_read_eoh_skipped ==
    /\ pc = "tcp_eoh"
    /\ pc' = "tcp_write"
    /\ UNCHANGED <<stream, pos, line, reads, ioErrs, hdrVars, callVars, argVars, auxVars,
                   outVars, handshake>>

\* read_u8: fails with UnexpectedEof when the stream has ended
tcp_read_eoh ==
    /\ pc = "tcp_eoh"
    /\ IF pos > Len(stream)
       THEN /\ tcp_fail([err |-> "TcpRead", kind |-> "UnexpectedEof"])
            /\ UNCHANGED pos
       ELSE /\ pos' = pos + 1
            /\ IF ~eoh_ok(byte_value(stream[pos]))
               THEN tcp_fail([err |-> "TcpEndOfHeader", byte |-> byte_value(stream[pos])])
               ELSE pc' = "tcp_write" /\ UNCHANGED handshake
    /\ reads' = reads + 1
    /\ UNCHANGED <<stream, line, ioErrs, hdrVars, callVars, argVars, auxVars, outVars>>

\* (mutation of tcp_write_item: the digest ended by a newline)
tcp_write_item_newline(k) ==
    CASE k = 1 -> <<"X", "t", "r", "a", "L", "i", "b", ".", "S", "t", "r", "e", "a", "m", ".", "0", NL>>
      [] k = 2 -> <<"T", "a", "c", "v", "i", "e", "w", ".", "R", "e", "a", "l", "T", "i", "m", "e", "T", "e", "l", "e", "m", "e", "t", "r", "y", ".", "0", NL>>
      [] k = 3 -> username \o <<NL>>
      [] k = 4 -> hash_password(password) \o <<NL>>

\* the argument of the k-th write_all
tcp_write_item(k) ==
    CASE k = 1 -> <<"X", "t", "r", "a", "L", "i", "b", ".", "S", "t", "r", "e", "a", "m", ".", "0", NL>>
      [] k = 2 -> <<"T", "a", "c", "v", "i", "e", "w", ".", "R", "e", "a", "l", "T", "i", "m", "e", "T", "e", "l", "e", "m", "e", "t", "r", "y", ".", "0", NL>>
      [] k = 3 -> username \o <<NL>>
      [] k = 4 -> hash_password(password) \o <<NUL>>

\* one write_all into the BufStream
tcp_write ==
    /\ pc = "tcp_write"
    /\ outbuf' = outbuf \o tcp_write_item(writes + 1)
    /\ writes' = writes + 1
    /\ pc' = IF writes + 1 = 4 THEN "tcp_flush" ELSE "tcp_write"
    /\ UNCHANGED <<stream, pos, line, reads, ioErrs, hdrVars, callVars, argVars, auxVars, wire,
                   handshake>>

\* flush, then Ok(tcp_stream)
tcp_flush ==
    /\ pc = "tcp_flush"
    /\ wire' = wire \o outbuf
    /\ outbuf' = <<>>
    /\ handshake' = Some(Ok([stream |-> "tcp_stream"]))
    /\ pc' = "tcp_done"
    /\ UNCHANGED <<stream, pos, line, reads, ioErrs, hdrVars, callVars, argVars, auxVars, writes>>

\* the pending read, write or flush returns an io::Error
tcp_io_error ==
    /\ ioErrs < MaxIoErrors
    /\ \/ /\ pc \in {"tcp_protocol", "tcp_version", "tcp_hostname", "tcp_eoh"}
          /\ tcp_fail([err |-> "TcpRead", kind |-> "Io"])
       \/ /\ pc \in {"tcp_write", "tcp_flush"}
          /\ tcp_fail([err |-> "TcpWrite", kind |-> "Io"])
    /\ ioErrs' = ioErrs + 1
    /\ UNCHANGED <<stream, pos, line, reads, hdrVars, callVars, argVars, auxVars, outVars>>

\* ------------------------------------------------------------------------
\* acmi/mod.rs: parse_header (called by try_from_reader), one step per await
\* ------------------------------------------------------------------------
FileTypeLine == <<"F", "i", "l", "e", "T", "y", "p", "e", "=", "t", "e", "x", "t", "/", "a", "c", "m", "i", "/", "t", "a", "c", "v", "i", "e", "w", NL>>
FileTypePrefix == <<"F", "i", "l", "e", "T", "y", "p", "e", "=">>
FileVersionPrefix == <<"F", "i", "l", "e", "V", "e", "r", "s", "i", "o", "n", "=">>
FileVersionStart == <<"F", "i", "l", "e", "V", "e", "r", "s", "i", "o", "n", "=", "2", ".", "2">>

\* the two checks of the ACMI header
\* (mutation of file_type_ok: a prefix test in place of the equality)
file_type_ok_prefix(buf) == starts_with(buf, pop(FileTypeLine))
file_type_ok(buf) == buf = FileTypeLine
file_version_ok(buf) == starts_with(buf, FileVersionStart)

\* (mutation of header_field: the newline is kept)
header_field_keep_newline(buf, prefix) == after_prefix(buf, prefix)

\* buf.strip_prefix(prefix).unwrap().strip_suffix('\n').unwrap()
header_field(buf, prefix) == pop(after_prefix(buf, prefix))

\* file type: read_line, compare, strip prefix and newline, buf.clear()
parse_header_file_type ==
    /\ pc = "hdr_type"
    /\ LET buf == read_line(stream, pos)
       IN /\ pos' = pos + Len(buf)
          /\ IF ~file_type_ok(buf)
             THEN /\ ctor' = Some(Err([err |-> "BadAcmiFileType", text |-> buf]))
                  /\ pc' = "failed"
                  /\ UNCHANGED file_type
             ELSE /\ file_type' = header_field(buf, FileTypePrefix)
                  /\ pc' = "hdr_version"
                  /\ UNCHANGED ctor
    /\ reads' = reads + 1
    /\ UNCHANGED <<stream, line, ioErrs, callVars, argVars, auxVars, outVars, handshake>>

\* file version: read_line, prefix test, strip prefix and newline; the
\* unwrap() of strip_suffix('\n') panics when the line has no newline
parse_header_file_version ==
    /\ pc = "hdr_version"
    /\ LET buf == read_line(stream, pos)
       IN /\ pos' = pos + Len(buf)
          /\ IF ~file_version_ok(buf)
             THEN /\ ctor' = Some(Err([err |-> "BadAcmiFileVersion", text |-> buf]))
                  /\ pc' = "failed"
             ELSE IF ~ends_with(buf, NL)
             THEN /\ pc' = "panicked"
                  /\ UNCHANGED ctor
             ELSE /\ ctor' = Some(Ok([file_type |-> file_type,
                                      file_version |-> header_field(buf, FileVersionPrefix)]))
                  /\ pc' = "ready"
    /\ reads' = reads + 1
    /\ UNCHANGED <<stream, line, file_type, ioErrs, callVars, argVars, auxVars, outVars, handshake>>

\* ------------------------------------------------------------------------
\* acmi/mod.rs: RealTimeReader::next, one step per await
\* ------------------------------------------------------------------------
\* (mutation of next_loop_body: the line is not cleared after a comment)
next_loop_body_comment_kept(ln, chunk) ==
    LET stripped == strip_suffix_or(ln \o chunk, NL)
    IN IF starts_with(stripped, <<"/", "/">>)
       THEN [line |-> stripped, brk |-> FALSE]
       ELSE IF ends_with(stripped, BS)
       THEN [line |-> Append(pop(stripped), NL), brk |-> FALSE]
       ELSE [line |-> stripped, brk |-> TRUE]

\* (mutation of next_loop_body: the newline is not stripped)
next_loop_body_keep_newline(ln, chunk) ==
    LET stripped == ln \o chunk
    IN IF starts_with(stripped, <<"/", "/">>)
       THEN [line |-> <<>>, brk |-> FALSE]
       ELSE IF ends_with(stripped, BS)
       THEN [line |-> Append(pop(stripped), NL), brk |-> FALSE]
       ELSE [line |-> stripped, brk |-> TRUE]

\* (mutation of next_loop_body: the backslash is dropped, no newline pushed)
next_loop_body_no_push(ln, chunk) ==
    LET stripped == strip_suffix_or(ln \o chunk, NL)
    IN IF starts_with(stripped, <<"/", "/">>)
       THEN [line |-> <<>>, brk |-> FALSE]
       ELSE IF ends_with(stripped, BS)
       THEN [line |-> pop(stripped), brk |-> FALSE]
       ELSE [line |-> stripped, brk |-> TRUE]

\* (mutation of next_loop_body: the continuation test comes first)
next_loop_body_continuation_first(ln, chunk) ==
    LET stripped == strip_suffix_or(ln \o chunk, NL)
    IN IF ends_with(stripped, BS)
       THEN [line |-> Append(pop(stripped), NL), brk |-> FALSE]
       ELSE IF starts_with(stripped, <<"/", "/">>)
       THEN [line |-> <<>>, brk |-> FALSE]
       ELSE [line |-> stripped, brk |-> TRUE]

\* one pass of the loop body after read_line appended chunk to line:
\* the new line, and whether the loop breaks
next_loop_body(ln, chunk) ==
    LET stripped == strip_suffix_or(ln \o chunk, NL)
    IN IF starts_with(stripped, <<"/", "/">>)
       THEN [line |-> <<>>, brk |-> FALSE]
       ELSE IF ends_with(stripped, BS)
       THEN [line |-> Append(pop(stripped), NL), brk |-> FALSE]
       ELSE [line |-> stripped, brk |-> TRUE]

\* the caller invokes next(): let mut line = String::new()
next_call ==
    /\ pc = "ready"
    /\ Len(results) < MaxCalls
    /\ pc' = "next_read"
    /\ line' = <<>>
    /\ start' = pos
    /\ starts' = Append(starts, pos)
    /\ UNCHANGED <<stream, pos, reads, ioErrs, hdrVars, results, lines, argVars, auxVars,
                   outVars, handshake>>

\* (mutation of next_read_line: a line that fails to decode is left unread)
next_read_line_error_unread ==
    /\ pc = "next_read"
    /\ LET chunk == read_line(stream, pos)
           b == next_loop_body(line, chunk)
       IN /\ pos' = IF b.brk /\ ~Record_from_str(b.line).ok THEN pos ELSE pos + Len(chunk)
          /\ IF b.brk
             THEN /\ results' = Append(results, Record_from_str(b.line))
                  /\ lines' = Append(lines, b.line)
                  /\ line' = <<>>
                  /\ pc' = "ready"
                  /\ UNCHANGED <<start, starts>>
             ELSE /\ line' = b.line
                  /\ pc' = "next_read"
                  /\ UNCHANGED callVars
    /\ reads' = reads + 1
    /\ UNCHANGED <<stream, ioErrs, hdrVars, argVars, auxVars, outVars, handshake>>

\* read_line returns: one pass of the loop, and on break Record::from_str
next_read_line ==
    /\ pc = "next_read"
    /\ LET chunk == read_line(stream, pos)
           b == next_loop_body(line, chunk)
       IN /\ pos' = pos + Len(chunk)
          /\ IF b.brk
             THEN /\ results' = Append(results, Record_from_str(b.line))
                  /\ lines' = Append(lines, b.line)
                  /\ line' = <<>>
                  /\ pc' = "ready"
                  /\ UNCHANGED <<start, starts>>
             ELSE /\ line' = b.line
                  /\ pc' = "next_read"
                  /\ UNCHANGED callVars
    /\ reads' = reads + 1
    /\ UNCHANGED <<stream, ioErrs, hdrVars, argVars, auxVars, outVars, handshake>>

\* the pending read_line returns an io::Error: map_err(Error::AcmiReaderRead)?
reader_io_error ==
    /\ ioErrs < MaxIoErrors
    /\ \/ /\ pc \in {"hdr_type", "hdr_version"}
          /\ ctor' = Some(Err([err |-> "AcmiReaderRead", kind |-> "Io"]))
          /\ pc' = "failed"
          /\ UNCHANGED <<line, callVars>>
       \/ /\ pc = "next_read"
          /\ results' = Append(results, Err([err |-> "AcmiReaderRead", kind |-> "Io"]))
          /\ lines' = Append(lines, <<>>)
          /\ line' = <<>>
          /\ pc' = "ready"
          /\ UNCHANGED <<ctor, start, starts>>
    /\ ioErrs' = ioErrs + 1
    /\ reads' = reads + 1
    /\ UNCHANGED <<stream, pos, file_type, argVars, auxVars, outVars, handshake>>

\* next_read_line in a run of at most MaxReads calls of read_line
next_read_line_bounded ==
    /\ reads < MaxReads
    /\ next_read_line

\* the caller drops the future of next() while read_line is pending: the
\* local `line` goes with it.  read_line takes from the BufStream the bytes of
\* the current physical line that have arrived before it returns Pending, so
\* any number j of them, short of the whole line, may be gone.
next_cancel ==
    /\ pc = "next_read"
    /\ cancels < MaxCancels
    /\ LET chunk == read_line(stream, pos)
       IN \E j \in 0..(IF ends_with(chunk, NL) THEN Len(chunk) - 1 ELSE Len(chunk)) :
             pos' = pos + j
    /\ line' = <<>>
    /\ pc' = "ready"
    /\ cancels' = cancels + 1
    /\ UNCHANGED <<stream, reads, ioErrs, hdrVars, callVars, argVars, arg, ret, outVars,
                   handshake>>

\* ------------------------------------------------------------------------
\* The decoders called on their own with the text arg
\* ------------------------------------------------------------------------
call_Record_from_str ==
    /\ pc = "fn_new"
    /\ ret' = Some(Record_from_str(arg))
    /\ pc' = "fn_record"
    /\ UNCHANGED <<stream, pos, line, reads, ioErrs, hdrVars, callVars, argVars, outVars,
                   handshake, cancels, arg>>

call_GlobalProperty_from_str ==
    /\ pc = "fn_new"
    /\ ret' = Some(GlobalProperty_from_str(arg))
    /\ pc' = "fn_global"
    /\ UNCHANGED <<stream, pos, line, reads, ioErrs, hdrVars, callVars, argVars, outVars,
                   handshake, cancels, arg>>

call_ObjectProperty_from_str ==
    /\ pc = "fn_new"
    /\ ret' = Some(ObjectProperty_from_str(arg))
    /\ pc' = "fn_object"
    /\ UNCHANGED <<stream, pos, line, reads, ioErrs, hdrVars, callVars, argVars, outVars,
                   handshake, cancels, arg>>

call_Coords_from_str ==
    /\ pc = "fn_new"
    /\ ret' = Some(Coords_from_str(arg))
    /\ pc' = "fn_coords"
    /\ UNCHANGED <<stream, pos, line, reads, ioErrs, hdrVars, callVars, argVars, outVars,
                   handshake, cancels, arg>>

call_Event_from_str ==
    /\ pc = "fn_new"
    /\ ret' = Some(Event_from_str(arg))
    /\ pc' = "fn_event"
    /\ UNCHANGED <<stream, pos, line, reads, ioErrs, hdrVars, callVars, argVars, outVars,
                   handshake, cancels, arg>>

call_parse_comma ==
    /\ pc = "fn_new"
    /\ ret' = Some(parse_comma(arg))
    /\ pc' = "fn_comma"
    /\ UNCHANGED <<stream, pos, line, reads, ioErrs, hdrVars, callVars, argVars, outVars,
                   handshake, cancels, arg>>

\* ------------------------------------------------------------------------
\* A caller of Coords::update: arg holds the two operands, ret the values
\* that self takes, one for each call
\* ------------------------------------------------------------------------
\* a.update(&b)
call_Coords_update ==
    /\ pc = "upd_new"
    /\ ret' = Some(<<Coords_update(arg.self, arg.other)>>)
    /\ pc' = "upd_once"
    /\ UNCHANGED <<stream, pos, line, reads, ioErrs, hdrVars, callVars, argVars, outVars,
                   handshake, cancels, arg>>

\* a.update(&b) a second time
call_Coords_update_again ==
    /\ pc = "upd_once"
    /\ ret' = Some(Append(ret.v, Coords_update(ret.v[1], arg.other)))
    /\ pc' = "upd_twice"
    /\ UNCHANGED <<stream, pos, line, reads, ioErrs, hdrVars, callVars, argVars, outVars,
                   handshake, cancels, arg>>

\* b.update(&a)
call_Coords_update_swapped ==
    /\ pc = "upd_new"
    /\ ret' = Some(<<Coords_update(arg.other, arg.self)>>)
    /\ pc' = "upd_swapped"
    /\ UNCHANGED <<stream, pos, line, reads, ioErrs, hdrVars, callVars, argVars, outVars,
                   handshake, cancels, arg>>

\* ------------------------------------------------------------------------
\* Inputs
\* ------------------------------------------------------------------------
\* physical lines the server may send after the ACMI header, without newline
BodyLines ==
    { <<"#", "1">>,                \* time frame
      <<"0", ",", "T", "i", "t", "l", "e", "=", "x">>,         \* global property
      <<"1", ",", "N", "a", "m", "e", "=", "a", BS>>,        \* object update continued on the next line
      <<>>,                  \* blank line
      <<"/", "/", "c">>,               \* comment
      <<"/", "/", "c", BS>> }            \* comment ending with a backslash

RECURSIVE join_lines(_)
join_lines(ls) == IF ls = <<>> THEN <<>> ELSE Head(ls) \o <<NL>> \o join_lines(Tail(ls))

\* every sequence of at most n lines of BodyLines
LineLists(n) == UNION {[1..k -> BodyLines] : k \in 0..n}

\* the byte streams of at most n lines; the last line may lack its newline
Bodies(n) ==
    {join_lines(ls) : ls \in LineLists(n)}
        \cup {pop(join_lines(ls)) : ls \in LineLists(n) \ {<<>>}}

\* lines for runs in which a record fails to decode and more lines follow
FaultLines == { <<"#", "x">>, <<"#", "1">>, <<"1", ",", "N", "a", "m", "e", "=", "a", BS>> }

\* the byte streams of at most n newline-terminated lines of FaultLines
FaultBodies(n) == {join_lines(ls) : ls \in UNION {[1..k -> FaultLines] : k \in 1..n}}

HeaderTypeLines ==
    { FileTypeLine,
      <<"F", "i", "l", "e", "T", "y", "p", "e", "=", "t", "e", "x", "t", "/", "a", "c", "m", "i", "/", "t", "a", "c", "v", "i", "e", "w">>,
      <<"F", "i", "l", "e", "T", "y", "p", "e", "=", "t", "e", "x", "t", "/", "a", "c", "m", "i", "/", "t", "a", "c", "v", "i", "e", "w", "2", NL>>,
      <<"F", "i", "l", "e", "V", "e", "r", "s", "i", "o", "n", "=", "2", ".", "2", NL>>,
      <<NL>>,
      <<>> }

HeaderVersionLines ==
    { <<"F", "i", "l", "e", "V", "e", "r", "s", "i", "o", "n", "=", "2", ".", "2", NL>>,
      <<"F", "i", "l", "e", "V", "e", "r", "s", "i", "o", "n", "=", "2", ".", "2", ".", "1", NL>>,
      <<"F", "i", "l", "e", "V", "e", "r", "s", "i", "o", "n", "=", "2", ".", "2">>,
      <<"F", "i", "l", "e", "V", "e", "r", "s", "i", "o", "n", "=", "2", ".", "1", NL>>,
      <<"F", "i", "l", "e", "T", "y", "p", "e", "=", "t", "e", "x", "t", "/", "a", "c", "m", "i", "/", "t", "a", "c", "v", "i", "e", "w", NL>>,
      <<>> }

\* headers that try_from_reader accepts whatever follows
GoodVersionLines == { <<"F", "i", "l", "e", "V", "e", "r", "s", "i", "o", "n", "=", "2", ".", "2", NL>>, <<"F", "i", "l", "e", "V", "e", "r", "s", "i", "o", "n", "=", "2", ".", "2", ".", "1", NL>> }

TcpProtocolLines ==
    { ProtocolLine, <<"X", "t", "r", "a", "L", "i", "b", ".", "S", "t", "r", "e", "a", "m", ".", "0">>, <<"X", "t", "r", "a", "L", "i", "b", ".", "S", "t", "r", "e", "a", "m", ".", "1", NL>>, <<"x", "t", "r", "a", "l", "i", "b", ".", "s", "t", "r", "e", "a", "m", ".", "0", NL>>, <<>> }
TcpVersionLines ==
    { VersionLine, <<"T", "a", "c", "v", "i", "e", "w", ".", "R", "e", "a", "l", "T", "i", "m", "e", "T", "e", "l", "e", "m", "e", "t", "r", "y", ".", "1", NL>>, <<"X", "t", "r", "a", "L", "i", "b", ".", "S", "t", "r", "e", "a", "m", ".", "0", NL>>, <<>> }
TcpHostLines == { <<"h", "o", "s", "t", NL>>, <<NL>>, <<"h">>, <<>> }
TcpTerminators == { <<NUL>>, <<NUL, "F">>, <<"X">>, <<"1", NUL>>, <<NL>>, <<>> }
Usernames == { <<>>, <<"u">>, <<"m", "e">> }
\* "", "a", "test", U+00E9, U+1F600, "h0"
Passwords == { <<>>, <<97>>, <<116, 101, 115, 116>>, <<233>>, <<128512>>, <<104, 48>> }

\* ------------------------------------------------------------------------
\* Specification of the reader: try_from_reader, then calls to next()
\* ------------------------------------------------------------------------
InitCommon ==
    /\ pos = 1
    /\ line = <<>>
    /\ file_type = <<>>
    /\ ctor = None
    /\ results = <<>>
    /\ lines = <<>>
    /\ start = 1
    /\ reads = 0
    /\ ioErrs = 0
    /\ outbuf = <<>>
    /\ wire = <<>>
    /\ writes = 0
    /\ handshake = None
    /\ starts = <<>>
    /\ cancels = 0

Init ==
    /\ InitCommon
    /\ arg = <<>>
    /\ ret = None
    /\ pc = "hdr_type"
    /\ username = <<>>
    /\ password = <<>>
    /\ \/ \E v \in GoodVersionLines, b \in Bodies(MaxLines) :
             stream = FileTypeLine \o v \o b
       \/ \E t \in HeaderTypeLines, v \in HeaderVersionLines, b \in Bodies(1) :
             stream = t \o v \o b
       \/ \E b \in FaultBodies(MaxLines) : stream = FileTypeLine \o <<"F", "i", "l", "e", "V", "e", "r", "s", "i", "o", "n", "=", "2", ".", "2", NL>> \o b

Next ==
    \/ parse_header_file_type
    \/ parse_header_file_version
    \/ next_call
    \/ next_read_line
    \/ reader_io_error

Spec == Init /\ [][Next]_vars

\* the reader with a caller that may drop a pending next()
NextCancel ==
    \/ Next
    \/ next_cancel

InitCancel ==
    /\ InitCommon
    /\ arg = <<>>
    /\ ret = None
    /\ pc = "hdr_type"
    /\ username = <<>>
    /\ password = <<>>
    /\ \E b \in FaultBodies(MaxLines) : stream = FileTypeLine \o <<"F", "i", "l", "e", "V", "e", "r", "s", "i", "o", "n", "=", "2", ".", "2", NL>> \o b

SpecCancel == InitCancel /\ [][NextCancel]_vars

\* ------------------------------------------------------------------------
\* Specification of the reader whose pending read_line always completes
\* (the runtime polls a pending future until it is ready)
\* ------------------------------------------------------------------------
\* lines for runs that reach the end of the stream
LiveLines == { <<"#", "1">>, <<"/", "/", "c">>, <<"/", "/", "c", BS>>, <<"1", ",", "N", "a", "m", "e", "=", "a", BS>>, <<"a", BS, BS>> }

LiveBodies(n) ==
    {join_lines(ls) : ls \in UNION {[1..k -> LiveLines] : k \in 0..n}}
        \cup {pop(join_lines(ls)) : ls \in UNION {[1..k -> LiveLines] : k \in 1..n}}

InitLive ==
    /\ InitCommon
    /\ arg = <<>>
    /\ ret = None
    /\ pc = "hdr_type"
    /\ username = <<>>
    /\ password = <<>>
    /\ \E b \in LiveBodies(MaxLines) : stream = FileTypeLine \o <<"F", "i", "l", "e", "V", "e", "r", "s", "i", "o", "n", "=", "2", ".", "2", NL>> \o b

NextLive ==
    \/ parse_header_file_type
    \/ parse_header_file_version
    \/ next_call
    \/ next_read_line_bounded
    \/ reader_io_error

\* a step of next_read_line_bounded seen on the read counter: while a call is
\* pending no other action advances reads, and next_read_line_bounded is
\* enabled exactly when pc = "next_read" and reads < MaxReads
read_line_completes ==
    /\ pc = "next_read"
    /\ reads < MaxReads
    /\ reads' = reads + 1

SpecLive == InitLive /\ [][NextLive]_vars /\ WF_reads(read_line_completes)

\* ------------------------------------------------------------------------
\* Specification of the handshake: connect, then from_tcp_stream
\* ------------------------------------------------------------------------
InitTcp ==
    /\ InitCommon
    /\ arg = <<>>
    /\ ret = None
    /\ pc = "tcp_new"
    /\ username \in Usernames
    /\ password \in Passwords
    /\ \E p \in TcpProtocolLines, v \in TcpVersionLines, h \in TcpHostLines,
          t \in TcpTerminators :
             stream = p \o v \o h \o t

NextTcp ==
    \/ tcp_connect
    \/ tcp_read_protocol
    \/ tcp_read_version
    \/ tcp_read_hostname
    \/ tcp_read_eoh
    \/ tcp_write
    \/ tcp_flush
    \/ tcp_io_error

SpecTcp == InitTcp /\ [][NextTcp]_vars

\* ------------------------------------------------------------------------
\* Specification of the decoders: one decoder applied to one text
\* ------------------------------------------------------------------------
\* every text of at most n characters over the alphabet a
RECURSIVE Texts(_, _)
Texts(a, n) ==
    IF n = 0 THEN {<<>>}
    ELSE LET shorter == Texts(a, n - 1)
         IN shorter \cup {Append(t, c) : t \in shorter, c \in a}

RECURSIVE join_with(_, _)
join_with(ls, sep) ==
    IF ls = <<>> THEN <<>>
    ELSE IF Len(ls) = 1 THEN Head(ls)
    ELSE Head(ls) \o sep \o join_with(Tail(ls), sep)

PropertyFields ==
    { <<"T", "i", "t", "l", "e", "=", "x">>, <<"N", "a", "m", "e", "=", "a">>, <<"F", "o", "o", "=", "b", "=", "c">>, <<"F", "o", "o">>, <<>>, <<"=", "v">>, <<"F", "o", "o", "=">>, <<"C", "a", "l", "l", "S", "i", "g", "n", "=", "x">>,
      <<"E", "v", "e", "n", "t", "=", "x">>, <<"E", "v", "e", "n", "t", "=", "B", "o", "o", "k", "m", "a", "r", "k", "|", "t">>, <<"T", "=", "1", "|", "2", "|", "3">>, <<"T", "=", "1", "|", "2">> }

RecordHeads ==
    { <<>>, <<"0">>, <<"0", "0">>, <<"+", "0">>, <<"1">>, <<"A">>, <<"g">>, <<"-">>, <<"-", "1">>, <<"-", "g">>, <<"-", "0", ",">>, <<"#">>,
      <<"#", "1">>, <<"#", "1", ".", "5">>, <<"#", "x">>, <<"#", "0", ",">>, <<"0", "x">> }

\* the fields of a record line: at most n fields joined by commas
RecordTails(n) ==
    {join_with(fs, <<",">>) : fs \in UNION {[1..k -> PropertyFields] : k \in 0..n}}

RecordLines(n) ==
    {h \o sep \o t : h \in RecordHeads, sep \in {<<>>, <<",">>}, t \in RecordTails(n)}

\* the k-th coordinate token, a number of its own
CoordNumber(k) == IF k < 10 THEN <<DecDigits[k + 1]>> ELSE <<"1", DecDigits[k - 9]>>

\* coordinate texts of n tokens: all numbers, all empty, or all numbers but
\* one token that is empty or is not a number
CoordTokenLists(n) ==
    {[i \in 1..n |-> CoordNumber(i)], [i \in 1..n |-> <<>>]}
        \cup {[i \in 1..n |-> IF i = k THEN t ELSE CoordNumber(i)] :
                 k \in 1..n, t \in {<<>>, <<"x">>, <<"-", "2", ".", "5", "0">>}}

CoordTexts(n) == {join_with(ts, <<"|">>) : ts \in UNION {CoordTokenLists(k) : k \in 1..n}}

CommaAlphabet == {"a", ",", BS}

\* f with every comma written as backslash-comma
RECURSIVE escape_commas(_)
escape_commas(f) ==
    IF f = <<>> THEN <<>>
    ELSE (IF Head(f) = "," THEN <<BS, ",">> ELSE <<Head(f)>>) \o escape_commas(Tail(f))

CommaTexts(n) == Texts(CommaAlphabet, n) \cup {escape_commas(f) : f \in Texts(CommaAlphabet, n)}

PipeAlphabet == {"a", "|", BS}

\* f with every pipe written as backslash-pipe
RECURSIVE escape_pipes(_)
escape_pipes(f) ==
    IF f = <<>> THEN <<>>
    ELSE (IF Head(f) = "|" THEN <<BS, "|">> ELSE <<Head(f)>>) \o escape_pipes(Tail(f))

TimeoutTokens ==
    { <<"S", "o", "u", "r", "c", "e", "I", "d", ":", "1">>, <<"S", "o", "u", "r", "c", "e", "I", "d", ":", "2">>, <<"A", "m", "m", "o", "T", "y", "p", "e", ":">>, <<"O", "u", "t", "c", "o", "m", "e", ":", "a", ":", "b">>, <<"F", "o", "o", ":", "1">>, <<>>,
      <<"x", "S", "o", "u", "r", "c", "e", "I", "d", ":", "3">>, <<"T", "a", "r", "g", "e", "t", "I", "d", ":", "4">> }

\* event texts: a bookmark with an escaped text, a timeout with at most n
\* tokens, and one text for every other arm of the match
EventTexts(n) ==
    {<<"E", "v", "e", "n", "t", "=", "B", "o", "o", "k", "m", "a", "r", "k", "|">> \o escape_pipes(t) : t \in Texts(PipeAlphabet, MaxLen)}
        \cup {join_with(<<<<"E", "v", "e", "n", "t", "=", "T", "i", "m", "e", "o", "u", "t">>>> \o ts, <<"|">>) :
                  ts \in UNION {[1..k -> TimeoutTokens] : k \in 0..n}}
        \cup { <<"E", "v", "e", "n", "t", "=", "M", "e", "s", "s", "a", "g", "e", "|", "1", "|", "h", "i">>, <<"E", "v", "e", "n", "t", "=", "M", "e", "s", "s", "a", "g", "e", "|", "g", "|", "h", "i">>, <<"E", "v", "e", "n", "t", "=", "M", "e", "s", "s", "a", "g", "e", "|", "1">>,
                <<"E", "v", "e", "n", "t", "=", "D", "e", "b", "u", "g", "|", "d">>, <<"E", "v", "e", "n", "t", "=", "L", "e", "f", "t", "A", "r", "e", "a", "|", "2">>, <<"E", "v", "e", "n", "t", "=", "D", "e", "s", "t", "r", "o", "y", "e", "d", "|", "3">>,
                <<"E", "v", "e", "n", "t", "=", "T", "a", "k", "e", "n", "O", "f", "f", "|", "4", "|", "b", "a", "s", "e">>, <<"E", "v", "e", "n", "t", "=", "L", "a", "n", "d", "e", "d", "|", "5", "|", "b", "a", "s", "e">>, <<"E", "v", "e", "n", "t", "=", "L", "a", "n", "d", "e", "d">>,
                <<"E", "v", "e", "n", "t", "=", "O", "t", "h", "e", "r", "|", "x", "|", "y">>, <<"E", "v", "e", "n", "t", "=", "O", "t", "h", "e", "r">>, <<"E", "v", "e", "n", "t">> }

InitDecode ==
    /\ InitCommon
    /\ pc = "fn_new"
    /\ stream = <<>>
    /\ username = <<>>
    /\ password = <<>>
    /\ ret = None
    /\ arg \in RecordLines(MaxFields) \cup PropertyFields \cup CoordTexts(MaxCoordTokens)
                \cup {<<"T", "=">> \o c : c \in CoordTexts(MaxCoordTokens)}
                \cup CommaTexts(MaxLen)
                \cup EventTexts(MaxTimeoutTokens)
                \cup {ObjectPropertyDocs[i].field : i \in 1..Len(ObjectPropertyDocs)}

NextDecode ==
    \/ call_Record_from_str
    \/ call_GlobalProperty_from_str
    \/ call_ObjectProperty_from_str
    \/ call_Coords_from_str
    \/ call_parse_comma
    \/ call_Event_from_str

SpecDecode == InitDecode /\ [][NextDecode]_vars

\* ------------------------------------------------------------------------
\* Specification of Coords::update: two Coords values and the calls on them
\* ------------------------------------------------------------------------
\* presence patterns: no field, every field, one field, every field but one
CoordPresence ==
    {{}, {CoordFields[i] : i \in 1..9}}
        \cup {{CoordFields[k]} : k \in 1..9}
        \cup {{CoordFields[i] : i \in 1..9} \ {CoordFields[k]} : k \in 1..9}

CoordReals == {f64_from_str(<<"1", ".", "5">>).val, f64_from_str(<<"-", "2">>).val}

\* Coords values: the fields of one pattern present, all with one value
CoordsValues ==
    {[f \in DOMAIN CoordsDefault |-> IF f \in p THEN Some(x) ELSE None] :
        p \in CoordPresence, x \in CoordReals}

InitUpdate ==
    /\ InitCommon
    /\ pc = "upd_new"
    /\ stream = <<>>
    /\ username = <<>>
    /\ password = <<>>
    /\ ret = None
    /\ arg \in [self : CoordsValues, other : CoordsValues]

NextUpdate ==
    \/ call_Coords_update
    \/ call_Coords_update_again
    \/ call_Coords_update_swapped

SpecUpdate == InitUpdate /\ [][NextUpdate]_vars

TypeOK ==
    /\ pos \in 1..(Len(stream) + 1)
    /\ Len(results) = Len(lines)
    /\ Len(results) <= MaxCalls
    /\ ioErrs <= MaxIoErrors
    /\ writes \in 0..4

\* ========================================================================
\* Properties
\* ========================================================================
\* ------------------------------------------------------------------------
\* Reference notions, stated on the bytes of the stream alone
\* ------------------------------------------------------------------------
\* the physical line that begins at index p, with its newline when it has one
PhysicalLineAt(p) ==
    IF \E n \in p..Len(stream) : stream[n] = NL
    THEN SubSeq(stream, p, CHOOSE n \in p..Len(stream) :
                              stream[n] = NL /\ \A m \in p..(n - 1) : stream[m] # NL)
    ELSE SubSeq(stream, p, Len(stream))

Line1 == PhysicalLineAt(1)
Line2 == PhysicalLineAt(1 + Len(Line1))
Line3 == PhysicalLineAt(1 + Len(Line1) + Len(Line2))
\* index of the first byte after the two header lines
BodyStart == 1 + Len(Line1) + Len(Line2)
Body == SubSeq(stream, BodyStart, Len(stream))

Last(s) == s[Len(s)]

CtorOk == ctor.some /\ ctor.v.ok
CtorErr == IF ctor.some /\ ~ctor.v.ok THEN ctor.v.val.err ELSE "none"
HandshakeErr == IF handshake.some /\ ~handshake.v.ok THEN handshake.v.val.err ELSE "none"

\* A stream of logical lines: each logical line is sent with every newline
\* inside it written as backslash-newline, and is ended by a newline.
\* DecodeLogical reads this encoding back: [lines, rest], rest being the text
\* after the last line end.
RECURSIVE DecodeLogical(_, _, _, _)
DecodeLogical(s, i, acc, out) ==
    IF i > Len(s) THEN [lines |-> out, rest |-> acc]
    ELSE IF s[i] = BS /\ i < Len(s) /\ s[i + 1] = NL
    THEN DecodeLogical(s, i + 2, Append(acc, NL), out)
    ELSE IF s[i] = NL
    THEN DecodeLogical(s, i + 1, <<>>, Append(out, acc))
    ELSE DecodeLogical(s, i + 1, Append(acc, s[i]), out)

LogicalLines == DecodeLogical(Body, 1, <<>>, <<>>)

\* the body is a stream of logical lines that all decode
DecodableStream ==
    /\ LogicalLines.rest = <<>>
    /\ \A k \in 1..Len(LogicalLines.lines) : Record_from_str(LogicalLines.lines[k]).ok

\* ------------------------------------------------------------------------
\* C1: on a stream of logical lines that each decode successfully, the k-th
\* call to next() returns the record decoded from the k-th logical line:
\* in order, one record per logical line, none skipped, merged or repeated.
\* ------------------------------------------------------------------------
C1_RecordsInOrder ==
    (CtorOk /\ ioErrs = 0 /\ DecodableStream) =>
        \A k \in 1..Len(results) :
            k <= Len(LogicalLines.lines) =>
                /\ lines[k] = LogicalLines.lines[k]
                /\ results[k] = Record_from_str(LogicalLines.lines[k])

\* two records returned in order, the first from a continued line
C1_Witness ==
    /\ CtorOk /\ ioErrs = 0 /\ DecodableStream
    /\ Len(LogicalLines.lines) = 2
    /\ Len(results) = 2
    /\ results[1].ok /\ results[1].val.kind = "Update"
    /\ \E i \in 1..Len(lines[1]) : lines[1][i] = NL
    /\ results[2].ok /\ results[2].val.kind = "Frame"

\* ------------------------------------------------------------------------
\* C2: from_tcp_stream reads banner, version, hostname and one terminator
\* byte in that order; a banner other than "XtraLib.Stream.0\n" gives
\* TcpHeaderProtocol, a version other than "Tacview.RealTimeTelemetry.0\n"
\* gives TcpHeaderVersion, a terminator b other than 0 gives
\* TcpEndOfHeader(b); the first failing check decides and nothing after it
\* is read; any hostname is accepted.
\* ------------------------------------------------------------------------
TcpTerminatorAt == 1 + Len(Line1) + Len(Line2) + Len(Line3)

C2_ServerHeaderChecks ==
    (pc \in {"tcp_failed", "tcp_done"} /\ ioErrs = 0 /\ HandshakeErr # "TcpConnect") =>
        IF Line1 # ProtocolLine
        THEN /\ handshake = Some(Err([err |-> "TcpHeaderProtocol", text |-> Line1]))
             /\ reads = 1 /\ pos = 1 + Len(Line1)
        ELSE IF Line2 # VersionLine
        THEN /\ handshake = Some(Err([err |-> "TcpHeaderVersion", text |-> Line2]))
             /\ reads = 2 /\ pos = 1 + Len(Line1) + Len(Line2)
        ELSE IF TcpTerminatorAt > Len(stream)
        THEN HandshakeErr = "TcpRead"
        ELSE IF stream[TcpTerminatorAt] # NUL
        THEN /\ handshake = Some(Err([err |-> "TcpEndOfHeader",
                                      byte |-> byte_value(stream[TcpTerminatorAt])]))
             /\ reads = 4 /\ pos = TcpTerminatorAt + 1
        ELSE /\ handshake.v.ok
             /\ reads = 4 /\ pos = TcpTerminatorAt + 1

\* a valid banner, version and hostname followed by the byte 'X'
C2_Witness ==
    /\ pc = "tcp_failed"
    /\ Line1 = ProtocolLine /\ Line2 = VersionLine /\ Line3 = <<"h", "o", "s", "t", NL>>
    /\ handshake = Some(Err([err |-> "TcpEndOfHeader", byte |-> 88]))

\* ------------------------------------------------------------------------
\* C3: after a valid server header the client writes, in this order,
\* "XtraLib.Stream.0\n", "Tacview.RealTimeTelemetry.0\n", "<username>\n" and
\* "<password digest>" followed by a NUL byte, then flushes; Ok is returned
\* only after the flush, and a failed write or flush gives TcpWrite.
\* ------------------------------------------------------------------------
\* CRC-32/ISO-HDLC of the UTF-16LE bytes of the passwords used as inputs
ReferenceDigest(p) ==
    CASE p = <<>> -> <<"0">>
      [] p = <<97>> -> <<"3", "d", "3", "f", "4", "8", "1", "9">>
      [] p = <<116, 101, 115, 116>> -> <<"2", "7", "d", "8", "6", "d", "6", "a">>
      [] p = <<233>> -> <<"c", "e", "6", "5", "5", "a", "5", "a">>
      [] p = <<128512>> -> <<"c", "1", "f", "4", "6", "4", "3", "b">>
      [] p = <<104, 48>> -> <<"9", "0", "3", "6", "0", "3">>

ExpectedItems ==
    << <<"X", "t", "r", "a", "L", "i", "b", ".", "S", "t", "r", "e", "a", "m", ".", "0", NL>>, <<"T", "a", "c", "v", "i", "e", "w", ".", "R", "e", "a", "l", "T", "i", "m", "e", "T", "e", "l", "e", "m", "e", "t", "r", "y", ".", "0", NL>>,
       username \o <<NL>>, ReferenceDigest(password) \o <<NUL>> >>

RECURSIVE Concat(_)
Concat(ss) == IF ss = <<>> THEN <<>> ELSE Head(ss) \o Concat(Tail(ss))

TcpHeaderValid ==
    /\ Line1 = ProtocolLine
    /\ Line2 = VersionLine
    /\ TcpTerminatorAt <= Len(stream)
    /\ stream[TcpTerminatorAt] = NUL

C3_ClientWrites ==
    /\ wire \o outbuf = Concat(SubSeq(ExpectedItems, 1, writes))
    /\ (handshake.some /\ handshake.v.ok) =>
          /\ pc = "tcp_done"
          /\ writes = 4
          /\ outbuf = <<>>
          /\ wire = Concat(ExpectedItems)
          /\ Last(wire) = NUL
    /\ (pc = "tcp_failed" /\ reads = 4 /\ TcpHeaderValid) => HandshakeErr = "TcpWrite"
    /\ HandshakeErr = "TcpWrite" => (TcpHeaderValid /\ reads = 4)

\* the handshake completed for user "me" with password "test"
C3_Witness ==
    /\ pc = "tcp_done"
    /\ username = <<"m", "e">>
    /\ password = <<116, 101, 115, 116>>
    /\ wire = <<"X", "t", "r", "a", "L", "i", "b", ".", "S", "t", "r", "e", "a", "m", ".", "0", NL, "T", "a", "c", "v", "i", "e", "w", ".", "R", "e", "a", "l", "T", "i", "m", "e", "T", "e", "l", "e", "m", "e", "t", "r", "y", ".", "0", NL, "m", "e", NL, "2", "7", "d", "8", "6", "d", "6", "a", NUL>>

\* ------------------------------------------------------------------------
\* C4: try_from_reader fails with BadAcmiFileType unless the first line is
\* exactly "FileType=text/acmi/tacview\n", and with BadAcmiFileVersion unless
\* the second line begins with "FileVersion=2.2"; after a failed first check
\* the second line is not read; no reader exists after either failure.
\* ------------------------------------------------------------------------
C4_HeaderRejected ==
    /\ (ioErrs = 0 /\ pc # "hdr_type" /\ Line1 # FileTypeLine) =>
          /\ ctor = Some(Err([err |-> "BadAcmiFileType", text |-> Line1]))
          /\ reads = 1 /\ pos = 1 + Len(Line1)
    /\ (ioErrs = 0 /\ pc \notin {"hdr_type", "hdr_version"} /\ Line1 = FileTypeLine
            /\ ~starts_with(Line2, FileVersionStart)) =>
          /\ ctor = Some(Err([err |-> "BadAcmiFileVersion", text |-> Line2]))
          /\ reads = 2
    /\ CtorErr = "BadAcmiFileType" => Line1 # FileTypeLine
    /\ CtorErr = "BadAcmiFileVersion" =>
          (Line1 = FileTypeLine /\ ~starts_with(Line2, FileVersionStart))
    /\ CtorErr # "none" => (pc = "failed" /\ results = <<>> /\ line = <<>>)
    /\ pc \in {"ready", "next_read"} => CtorOk

\* the version line "FileVersion=2.1\n" was refused
C4_Witness ==
    /\ ctor = Some(Err([err |-> "BadAcmiFileVersion", text |-> <<"F", "i", "l", "e", "V", "e", "r", "s", "i", "o", "n", "=", "2", ".", "1", NL>>]))
    /\ reads = 2

\* ------------------------------------------------------------------------
\* C5: on success the header parser has consumed exactly the first two
\* lines; header.file_type and header.file_version are those lines without
\* the "FileType=" / "FileVersion=" prefix and without the newline; the
\* first call to next() starts at the third line.
\* ------------------------------------------------------------------------
C5_HeaderConsumed ==
    CtorOk =>
        /\ FileTypePrefix \o ctor.v.val.file_type \o <<NL>> = Line1
        /\ FileVersionPrefix \o ctor.v.val.file_version \o <<NL>> = Line2
        /\ results = <<>> /\ pc = "ready" => (pos = BodyStart /\ reads = 2)
        /\ Len(results) + (IF pc = "next_read" THEN 1 ELSE 0) = 1 => start = BodyStart
        /\ (reads = 3 /\ ioErrs = 0) => pos = BodyStart + Len(Line3)

\* header "2.2.1" accepted and the first record read from the third line
C5_Witness ==
    /\ CtorOk
    /\ ctor.v.val = [file_type |-> <<"t", "e", "x", "t", "/", "a", "c", "m", "i", "/", "t", "a", "c", "v", "i", "e", "w">>, file_version |-> <<"2", ".", "2", ".", "1">>]
    /\ Len(results) = 1 /\ results[1].ok
    /\ lines[1] \o <<NL>> = Line3

\* ------------------------------------------------------------------------
\* Reference notions for the line assembler
\* ------------------------------------------------------------------------
\* a physical line without its newline
LineText(l) == IF l # <<>> /\ Last(l) = NL THEN SubSeq(l, 1, Len(l) - 1) ELSE l

\* The chain of physical lines that begins at index p: the lines up to the
\* first one that does not end with a backslash.  complete is FALSE when the
\* stream ends before such a line; next is the index after the chain.
RECURSIVE ChainFrom(_, _)
ChainFrom(p, acc) ==
    LET l == PhysicalLineAt(p)
    IN IF l = <<>> THEN [lines |-> acc, complete |-> FALSE, next |-> p]
       ELSE IF LineText(l) # <<>> /\ Last(LineText(l)) = BS
       THEN ChainFrom(p + Len(l), Append(acc, LineText(l)))
       ELSE [lines |-> Append(acc, LineText(l)), complete |-> TRUE, next |-> p + Len(l)]

\* the chain as one logical line: each trailing backslash becomes a newline
RECURSIVE JoinChain(_)
JoinChain(ls) ==
    IF Len(ls) = 1 THEN Head(ls)
    ELSE SubSeq(Head(ls), 1, Len(Head(ls)) - 1) \o <<NL>> \o JoinChain(Tail(ls))

CountNewlines(s) == Cardinality({i \in 1..Len(s) : s[i] = NL})

IsComment(l) == Len(l) >= 2 /\ l[1] = "/" /\ l[2] = "/"

\* the last call to next() has returned without an I/O error
CallReturned == pc = "ready" /\ Len(results) >= 1 /\ ioErrs = 0

\* ------------------------------------------------------------------------
\* C6: a chain of k physical lines, the first k-1 of which end with a
\* backslash, is returned by one call to next() as one logical line in which
\* each trailing backslash is replaced by a newline: k-1 embedded newlines,
\* one result.  (A line read at the start of a call that begins with "//" is
\* a comment and starts no chain.)
\* ------------------------------------------------------------------------
C6_ContinuationChain ==
    CallReturned =>
        LET ch == ChainFrom(start, <<>>)
        IN (ch.complete /\ ~IsComment(ch.lines[1])) =>
              /\ Last(lines) = JoinChain(ch.lines)
              /\ CountNewlines(Last(lines)) = Len(ch.lines) - 1
              /\ Last(results) = Record_from_str(JoinChain(ch.lines))
              /\ pos = ch.next

\* a chain of three lines came back as one Update record
C6_Witness ==
    /\ CallReturned
    /\ ChainFrom(start, <<>>).complete
    /\ Len(ChainFrom(start, <<>>).lines) = 3
    /\ CountNewlines(Last(lines)) = 2
    /\ Last(results).ok /\ Last(results).val.kind = "Update"

\* ------------------------------------------------------------------------
\* C7: every physical line that starts with "//" is discarded and gives no
\* text to any logical line, also when it is read while a backslash
\* continuation is being extended.  A logical line is made of the physical
\* lines joined by newlines, so no newline-separated part of it may start
\* with "//".
\* ------------------------------------------------------------------------
C7_CommentsDiscarded ==
    \A j \in 1..Len(lines) :
        LET parts == split(lines[j], NL)
        IN \A i \in 1..Len(parts) : ~IsComment(parts[i])

\* ------------------------------------------------------------------------
\* C8: a comment line between two complete data lines does not change the
\* results of the successive calls to next(): the stream with the comment
\* and the stream without it give the same results in the same order.
\* ------------------------------------------------------------------------
\* the reader run as a function of a byte stream: one call from index p
RECURSIVE RunNext(_, _, _)
RunNext(s, p, ln) ==
    LET chunk == read_line(s, p)
        b == next_loop_body(ln, chunk)
    IN IF b.brk THEN [line |-> b.line, pos |-> p + Len(chunk)]
       ELSE RunNext(s, p + Len(chunk), b.line)

\* the results of n successive calls from index p
RECURSIVE RunCalls(_, _, _)
RunCalls(s, p, n) ==
    IF n = 0 THEN <<>>
    ELSE LET r == RunNext(s, p, <<>>)
         IN <<Record_from_str(r.line)>> \o RunCalls(s, r.pos, n - 1)

\* a line that is a whole logical line by itself
CompleteDataLine(l) ==
    /\ LineText(l) # <<>>
    /\ ~IsComment(l)
    /\ Last(LineText(l)) # BS

LineStarts == {p \in BodyStart..Len(stream) : p = BodyStart \/ stream[p - 1] = NL}

PreviousLineStart(p) == CHOOSE q \in LineStarts : q < p /\ \A r \in LineStarts : r < p => r <= q

\* the comment lines that stand between two complete data lines
CommentsBetweenData ==
    {p \in LineStarts :
        /\ p > BodyStart
        /\ IsComment(PhysicalLineAt(p))
        /\ Last(PhysicalLineAt(p)) = NL
        /\ CompleteDataLine(PhysicalLineAt(PreviousLineStart(p)))
        /\ CompleteDataLine(PhysicalLineAt(p + Len(PhysicalLineAt(p))))}

WithoutLineAt(p) ==
    SubSeq(stream, 1, p - 1) \o SubSeq(stream, p + Len(PhysicalLineAt(p)), Len(stream))

C8_CommentBetweenDataLines ==
    (CtorOk /\ ioErrs = 0) =>
        \A p \in CommentsBetweenData :
            results = RunCalls(WithoutLineAt(p), BodyStart, Len(results))

\* two records were returned around a comment line
C8_Witness ==
    /\ CtorOk /\ ioErrs = 0
    /\ CommentsBetweenData # {}
    /\ Len(results) = 2
    /\ results[1].ok /\ results[2].ok
    /\ pos > Len(stream)

\* ------------------------------------------------------------------------
\* C9: an empty physical line is skipped by next(): the call keeps reading
\* and returns the record of the next non-empty, non-comment logical line,
\* with no error for the blank line.
\* ------------------------------------------------------------------------
C9_BlankLineSkipped ==
    (/\ CallReturned
     /\ start <= Len(stream) /\ stream[start] = NL
     /\ CompleteDataLine(PhysicalLineAt(start + 1))) =>
        /\ Last(lines) = LineText(PhysicalLineAt(start + 1))
        /\ Last(results) = Record_from_str(LineText(PhysicalLineAt(start + 1)))

\* ------------------------------------------------------------------------
\* C10: when the byte stream has ended (read_line returns zero bytes),
\* next() returns an AcmiReaderRead error with an end-of-file indication,
\* distinct from the error of a malformed record line.
\* ------------------------------------------------------------------------
C10_EndOfStreamReported ==
    (CallReturned /\ start > Len(stream)) =>
        /\ ~Last(results).ok
        /\ Last(results).val.err = "AcmiReaderRead"

\* ------------------------------------------------------------------------
\* C11: a decode failure is terminal to that call only: the call that
\* returns a decode error has consumed exactly its logical line and keeps no
\* state from it, and the following call returns the result for the next
\* logical line of the stream.
\* ------------------------------------------------------------------------
IsDecodeError(r) == ~r.ok /\ r.val.err # "AcmiReaderRead"

\* the chain of physical lines at index p is a whole logical line
LogicalLineAt(p) ==
    ChainFrom(p, <<>>).complete /\ ~IsComment(ChainFrom(p, <<>>).lines[1])

C11_DecodeErrorIsLocal ==
    (CtorOk /\ ioErrs = 0) =>
        \A k \in 1..Len(results) :
            (IsDecodeError(results[k]) /\ LogicalLineAt(starts[k])) =>
                /\ lines[k] = JoinChain(ChainFrom(starts[k], <<>>).lines)
                /\ k < Len(starts) => starts[k + 1] = ChainFrom(starts[k], <<>>).next
                /\ (k = Len(results) /\ pc = "ready") =>
                      (pos = ChainFrom(starts[k], <<>>).next /\ line = <<>>)
                /\ (k < Len(results) /\ LogicalLineAt(starts[k + 1])) =>
                      results[k + 1] =
                          Record_from_str(JoinChain(ChainFrom(starts[k + 1], <<>>).lines))

\* "#x" failed to decode and the next call returned the Frame of "#1"
C11_Witness ==
    /\ CtorOk /\ ioErrs = 0
    /\ Len(results) = 2
    /\ lines[1] = <<"#", "x">>
    /\ results[1] = Err([err |-> "ParseFloat", kind |-> "Invalid"])
    /\ results[2].ok /\ results[2].val.kind = "Frame"

\* ------------------------------------------------------------------------
\* C12: when a pending next() is cancelled, the text it had accumulated is
\* discarded with the call and the following call to next() starts reading
\* at the beginning of a physical line.
\* ------------------------------------------------------------------------
AtLineStart(p) == p = BodyStart \/ stream[p - 1] = NL

C12_CancelRestartsAtLineStart ==
    (CtorOk /\ ioErrs = 0) =>
        /\ pc = "ready" => line = <<>>
        /\ \A k \in 1..Len(starts) : AtLineStart(starts[k])

\* ------------------------------------------------------------------------
\* C13: every Update(id, props) returned by Record::from_str has id # 0,
\* for every input line.
\* ------------------------------------------------------------------------
C13_UpdateIdNonZero ==
    (pc = "fn_record" /\ ret.v.ok /\ ret.v.val.kind = "Update") => ret.v.val.id # 0

\* ------------------------------------------------------------------------
\* C14: the record kind is decided by the prefix of the line alone: '-'
\* gives Remove or an error; '#' gives Frame or an error; otherwise a line
\* without ',' fails with AcmiReaderEol; head "0" with a tail that starts
\* with "Event=" gives Event or an error; head "0" with any other tail gives
\* GlobalProperties or an error; any other head gives Update or an error.
\* ------------------------------------------------------------------------
HasComma(s) == \E i \in 1..Len(s) : s[i] = ","

FirstComma(s) == CHOOSE i \in 1..Len(s) : s[i] = "," /\ \A j \in 1..(i - 1) : s[j] # ","

\* the one kind a line may decode to, "none" when it must fail
KindByPrefix(s) ==
    IF s # <<>> /\ s[1] = "-" THEN "Remove"
    ELSE IF s # <<>> /\ s[1] = "#" THEN "Frame"
    ELSE IF ~HasComma(s) THEN "none"
    ELSE IF FirstComma(s) = 2 /\ s[1] = "0"
    THEN IF Len(s) >= 8 /\ SubSeq(s, 3, 8) = <<"E", "v", "e", "n", "t", "=">> THEN "Event" ELSE "GlobalProperties"
    ELSE "Update"

C14_KindByPrefix ==
    pc = "fn_record" =>
        /\ ret.v.ok => ret.v.val.kind = KindByPrefix(arg)
        /\ KindByPrefix(arg) = "none" => ret.v = Err([err |-> "AcmiReaderEol"])

\* "00,Title=x" is an Update of object 0 with one unknown property
C14_Witness ==
    /\ pc = "fn_record"
    /\ arg = <<"0", "0", ",", "T", "i", "t", "l", "e", "=", "x">>
    /\ ret.v.ok /\ ret.v.val.kind = "Update" /\ Len(ret.v.val.props) = 1

\* ------------------------------------------------------------------------
\* C15: a property field whose key is not a known key never raises an
\* error: GlobalProperty::from_str and ObjectProperty::from_str return
\* Unknown(name, value), name being the text before the first '=' and value
\* everything after it, and the whole record is still returned.
\* ------------------------------------------------------------------------
HasEquals(s) == \E i \in 1..Len(s) : s[i] = "="

FirstEquals(s) == CHOOSE i \in 1..Len(s) : s[i] = "=" /\ \A j \in 1..(i - 1) : s[j] # "="

KeyName(s) == SubSeq(s, 1, FirstEquals(s) - 1)

KeyValue(s) == SubSeq(s, FirstEquals(s) + 1, Len(s))

\* the field has a key, and the decoder's table has no entry for it
UnknownKey(table, s) ==
    HasEquals(s) /\ \A i \in 1..Len(table) : table[i].key # Append(KeyName(s), "=")

UnknownOf(s) == [variant |-> "Unknown", name |-> KeyName(s), value |-> KeyValue(s)]

\* the fields of an object line "1,<field>,<field>..." without escapes
FieldsOf(s) == split(SubSeq(s, FirstComma(s) + 1, Len(s)), ",")

C15_UnknownKeyIsNoError ==
    /\ (pc = "fn_global" /\ UnknownKey(GlobalPropertyTable, arg)) =>
          ret.v = Ok(UnknownOf(arg))
    /\ (pc = "fn_object" /\ UnknownKey(ObjectPropertyTable, arg)) =>
          ret.v = Ok(UnknownOf(arg))
    /\ (pc = "fn_record" /\ starts_with(arg, <<"1", ",">>)) =>
          \A i \in 1..Len(FieldsOf(arg)) :
              (ret.v.ok /\ UnknownKey(ObjectPropertyTable, FieldsOf(arg)[i])) =>
                  ret.v.val.props[i] = UnknownOf(FieldsOf(arg)[i])
    /\ (pc = "fn_record" /\ starts_with(arg, <<"1", ",">>)
            /\ \A i \in 1..Len(FieldsOf(arg)) :
                   UnknownKey(ObjectPropertyTable, FieldsOf(arg)[i])) =>
          ret.v.ok /\ Len(ret.v.val.props) = Len(FieldsOf(arg))

\* an Update with the unknown field "Foo=b=c" before the known field "Name=a"
C15_Witness ==
    /\ pc = "fn_record"
    /\ arg = <<"1", ",", "F", "o", "o", "=", "b", "=", "c", ",", "N", "a", "m", "e", "=", "a">>
    /\ ret.v = Ok([kind |-> "Update", id |-> 1,
                   props |-> << [variant |-> "Unknown", name |-> <<"F", "o", "o">>, value |-> <<"b", "=", "c">>],
                                [variant |-> "Name", value |-> <<"a">>] >>])

\* ------------------------------------------------------------------------
\* C16: a "T=" value split on '|' is decoded by its arity n: n = 3 sets
\* longitude, latitude, altitude; n = 5 sets longitude, latitude, altitude,
\* u, v; n = 6 sets longitude, latitude, altitude, roll, pitch, yaw; n = 9
\* sets all nine in the order lon, lat, alt, roll, pitch, yaw, u, v,
\* heading; the other fields are absent, and an empty token gives an absent
\* field, so "T=||" gives Coords with all nine fields absent.
\* ------------------------------------------------------------------------
CoordTokens(s) == split(s, "|")

\* the schema of the specification, per arity
AritySchema(n) ==
    CASE n = 3 -> <<"longitude", "latitude", "altitude">>
      [] n = 5 -> <<"longitude", "latitude", "altitude", "u", "v">>
      [] n = 6 -> <<"longitude", "latitude", "altitude", "roll", "pitch", "yaw">>
      [] n = 9 -> <<"longitude", "latitude", "altitude", "roll", "pitch", "yaw",
                    "u", "v", "heading">>

\* every token is empty or a number
NumericTokens(ts) == \A i \in 1..Len(ts) : ts[i] = <<>> \/ f64_from_str(ts[i]).ok

TokenValue(t) == IF t = <<>> THEN None ELSE Some(f64_from_str(t).val)

\* the Coords that the schema prescribes for the tokens ts
CoordsBySchema(ts) ==
    [f \in {"longitude", "latitude", "altitude", "roll", "pitch", "yaw", "u", "v",
            "heading"} |->
        IF \E i \in 1..Len(ts) : AritySchema(Len(ts))[i] = f
        THEN TokenValue(ts[CHOOSE i \in 1..Len(ts) : AritySchema(Len(ts))[i] = f])
        ELSE None]

StrictArity(ts) == Len(ts) \in {3, 5, 6, 9} /\ NumericTokens(ts)

C16_CoordsByArity ==
    /\ (pc = "fn_coords" /\ StrictArity(CoordTokens(arg))) =>
          ret.v = Ok(CoordsBySchema(CoordTokens(arg)))
    /\ (pc = "fn_object" /\ starts_with(arg, <<"T", "=">>)
            /\ StrictArity(CoordTokens(after_prefix(arg, <<"T", "=">>)))) =>
          ret.v = Ok([variant |-> "T",
                      value |-> CoordsBySchema(CoordTokens(after_prefix(arg, <<"T", "=">>)))])
    /\ (pc = "fn_object" /\ arg = <<"T", "=", "|", "|">>) =>
          \A f \in DOMAIN ret.v.val.value : ret.v.val.value[f] = None

\* "T=1|2|3|4|5" sets u = 4 and v = 5 and leaves roll absent
C16_Witness ==
    /\ pc = "fn_object"
    /\ arg = <<"T", "=", "1", "|", "2", "|", "3", "|", "4", "|", "5">>
    /\ ret.v.ok
    /\ ret.v.val.value.u = Some([m |-> 4, e |-> 0])
    /\ ret.v.val.value.v = Some([m |-> 5, e |-> 0])
    /\ ret.v.val.value.roll = None

\* ------------------------------------------------------------------------
\* C17: a "T=" value with 4, 7 or 8 '|'-separated fields is accepted:
\* Coords::from_str returns Ok, the leading fields decoded under the schema
\* and the remaining fields absent.
\* ------------------------------------------------------------------------
C17_DegenerateArityAccepted ==
    (/\ pc = "fn_coords"
     /\ Len(CoordTokens(arg)) \in {4, 7, 8}
     /\ NumericTokens(CoordTokens(arg))) =>
        /\ ret.v.ok
        /\ ret.v.val.longitude = TokenValue(CoordTokens(arg)[1])
        /\ ret.v.val.latitude = TokenValue(CoordTokens(arg)[2])
        /\ ret.v.val.altitude = TokenValue(CoordTokens(arg)[3])

\* ------------------------------------------------------------------------
\* C18: a "T=" value with fewer than 3 or more than 9 '|'-separated fields
\* is rejected: Coords::from_str returns MalformedCoords carrying the text,
\* never a Coords value.  (Stated for tokens that are each empty or a
\* number, so that the arity alone decides.)
\* ------------------------------------------------------------------------
C18_ArityOutOfRangeRejected ==
    (/\ pc = "fn_coords"
     /\ (Len(CoordTokens(arg)) < 3 \/ Len(CoordTokens(arg)) > 9)
     /\ NumericTokens(CoordTokens(arg))) =>
        ret.v = Err([err |-> "MalformedCoords", text |-> arg])

\* ------------------------------------------------------------------------
\* C19: parse_comma splits a line on every comma that is not immediately
\* preceded by a backslash; a backslash-comma pair becomes a comma inside
\* the field, the backslash dropped; every other backslash is kept
\* unchanged, also when it is the last character of the line.
\* ------------------------------------------------------------------------
\* the tokenizer as the rule states it, one character at a time: fields is
\* the list of the fields closed so far, cur the field being read
RECURSIVE EscapeAwareSplit(_, _, _, _)
EscapeAwareSplit(s, i, cur, fields) ==
    IF i > Len(s) THEN Append(fields, cur)
    ELSE IF s[i] = BS /\ i < Len(s) /\ s[i + 1] = ","
    THEN EscapeAwareSplit(s, i + 2, Append(cur, ","), fields)
    ELSE IF s[i] = ","
    THEN EscapeAwareSplit(s, i + 1, <<>>, Append(fields, cur))
    ELSE EscapeAwareSplit(s, i + 1, Append(cur, s[i]), fields)

C19_EscapeAwareSplit ==
    pc = "fn_comma" => ret.v = EscapeAwareSplit(arg, 1, <<>>, <<>>)

\* ------------------------------------------------------------------------
\* C20: tokenizer round trip: for every field text f, f with each ','
\* written as backslash-comma is split by parse_comma into the one-element
\* list [f].
\* ------------------------------------------------------------------------
C20_TokenizerRoundTrip ==
    pc = "fn_comma" =>
        \A f \in Texts(CommaAlphabet, MaxLen) :
            arg = escape_commas(f) => ret.v = <<f>>

\* ------------------------------------------------------------------------
\* C21: when a line ends with an unescaped comma, parse_comma emits no
\* empty trailing field: the line gives the same field list as the line
\* without that comma, and a record line with a trailing comma decodes to
\* the same record as the line without it.
\* ------------------------------------------------------------------------
TrailingComma(s) == ends_with(s, ",") /\ ~ends_with(pop(s), BS)

\* a record line whose property list holds a field and ends with a comma
PropertyListWithTrailingComma(s) ==
    /\ TrailingComma(s)
    /\ KindByPrefix(s) \in {"Update", "GlobalProperties"}
    /\ FirstComma(s) < Len(s)

C21_NoEmptyTrailingField ==
    /\ (pc = "fn_comma" /\ TrailingComma(arg)) => ret.v = parse_comma(pop(arg))
    /\ (pc = "fn_record" /\ PropertyListWithTrailingComma(arg)) =>
          ret.v = Record_from_str(pop(arg))

\* ------------------------------------------------------------------------
\* C22: event fields and coordinate fields are split on '|' with the escape
\* rule of the commas: a backslash-pipe pair inside an event text is a
\* literal '|' of that text and no field boundary.  Stated on bookmarks: the
\* text t written with each '|' as backslash-pipe decodes to Bookmark(t).
\* ------------------------------------------------------------------------
C22_EscapedPipeInEventText ==
    pc = "fn_event" =>
        \A t \in Texts(PipeAlphabet, MaxLen) :
            arg = <<"E", "v", "e", "n", "t", "=", "B", "o", "o", "k", "m", "a", "r", "k", "|">> \o escape_pipes(t) =>
                ret.v = Ok([variant |-> "Bookmark", id |-> None, text |-> Some(t)])

\* ------------------------------------------------------------------------
\* C23: Coords::update(self, other) sets each of the nine fields of self to
\* other's value exactly where other's field is present and leaves the
\* field of self unchanged where other's field is absent; merging an
\* all-absent Coords changes nothing.
\* ------------------------------------------------------------------------
C23_UpdateSetsPresentFields ==
    pc = "upd_once" =>
        /\ \A i \in 1..9 :
              IF arg.other[CoordFields[i]].some
              THEN ret.v[1][CoordFields[i]] = arg.other[CoordFields[i]]
              ELSE ret.v[1][CoordFields[i]] = arg.self[CoordFields[i]]
        /\ arg.other = CoordsDefault => ret.v[1] = arg.self

\* self with every field 1.5, other with latitude -2 alone: latitude is
\* replaced, longitude and heading keep 1.5
C23_Witness ==
    /\ pc = "upd_once"
    /\ \A i \in 1..9 : arg.self[CoordFields[i]] = Some(f64_from_str(<<"1", ".", "5">>).val)
    /\ \A i \in 1..9 : arg.other[CoordFields[i]].some <=> i = 2
    /\ ret.v[1].latitude = Some(f64_from_str(<<"-", "2">>).val)
    /\ ret.v[1].longitude = Some(f64_from_str(<<"1", ".", "5">>).val)
    /\ ret.v[1].heading = Some(f64_from_str(<<"1", ".", "5">>).val)

\* ------------------------------------------------------------------------
\* C24: Coords::update is idempotent and commutes on agreeing inputs: a
\* second a.update(b) changes nothing, a.update(a) leaves a unchanged, and
\* when no field is present in a and in b with different values (so also
\* when a and b have the same fields with the same values), a.update(b) and
\* b.update(a) are the same Coords.
\* ------------------------------------------------------------------------
\* no field present on both sides with two values
Agreeing(a, b) ==
    \A i \in 1..9 : (a[CoordFields[i]].some /\ b[CoordFields[i]].some) =>
                        a[CoordFields[i]] = b[CoordFields[i]]

\* the fields of a and the fields of b together
UnionOfFields(a, b) == [f \in DOMAIN a |-> IF a[f].some THEN a[f] ELSE b[f]]

C24_UpdateIdempotentCommutes ==
    /\ pc = "upd_twice" => ret.v[2] = ret.v[1]
    /\ (pc = "upd_once" /\ arg.other = arg.self) => ret.v[1] = arg.self
    /\ (pc \in {"upd_once", "upd_swapped"} /\ Agreeing(arg.self, arg.other)) =>
          ret.v[1] = UnionOfFields(arg.self, arg.other)

\* a with longitude alone, b with every field but longitude, same value:
\* b.update(a) has all nine fields
C24_Witness ==
    /\ pc = "upd_swapped"
    /\ arg.self # arg.other
    /\ Agreeing(arg.self, arg.other)
    /\ \A i \in 1..9 : arg.self[CoordFields[i]].some <=> i = 1
    /\ \A i \in 1..9 : ret.v[1][CoordFields[i]].some

\* ------------------------------------------------------------------------
\* C25: decoding "Event=Timeout|..." never fails: for any sequence of
\* '|'-tokens each of the seven TimeoutEvent fields holds the text after
\* the key of the last token that carries its key, or is absent when no
\* token carries it; a token with any other prefix changes no field.
\* ------------------------------------------------------------------------
TimeoutSchema ==
    << [key |-> <<"S", "o", "u", "r", "c", "e", "I", "d", ":">>, field |-> "source_id"],
       [key |-> <<"A", "m", "m", "o", "T", "y", "p", "e", ":">>, field |-> "ammo_type"],
       [key |-> <<"A", "m", "m", "o", "C", "o", "u", "n", "t", ":">>, field |-> "ammo_count"],
       [key |-> <<"B", "u", "l", "l", "s", "e", "y", "e", ":">>, field |-> "bullseye"],
       [key |-> <<"T", "a", "r", "g", "e", "t", "I", "d", ":">>, field |-> "target_id"],
       [key |-> <<"I", "n", "t", "e", "n", "d", "e", "d", "T", "a", "r", "g", "e", "t", ":">>, field |-> "intended_target"],
       [key |-> <<"O", "u", "t", "c", "o", "m", "e", ":">>, field |-> "outcome"] >>

\* the tokens that carry the key
Carriers(tokens, key) == {i \in 1..Len(tokens) : starts_with(tokens[i], key)}

LastCarried(tokens, key) ==
    IF Carriers(tokens, key) = {} THEN None
    ELSE Some(after_prefix(tokens[CHOOSE i \in Carriers(tokens, key) :
                                      \A j \in Carriers(tokens, key) : j <= i], key))

IsTimeoutText(s) == split(s, "|")[1] = <<"E", "v", "e", "n", "t", "=", "T", "i", "m", "e", "o", "u", "t">>

C25_TimeoutLastTokenWins ==
    (pc = "fn_event" /\ IsTimeoutText(arg)) =>
        /\ ret.v.ok
        /\ ret.v.val.variant = "Timeout"
        /\ DOMAIN ret.v.val.timeout = {TimeoutSchema[k].field : k \in 1..7}
        /\ \A k \in 1..7 :
              ret.v.val.timeout[TimeoutSchema[k].field] =
                  LastCarried(Tail(split(arg, "|")), TimeoutSchema[k].key)

\* two tokens carry SourceId, an unknown token stands between them
C25_Witness ==
    /\ pc = "fn_event"
    /\ arg = <<"E", "v", "e", "n", "t", "=", "T", "i", "m", "e", "o", "u", "t", "|", "S", "o", "u", "r", "c", "e", "I", "d", ":", "1", "|", "F", "o", "o", ":", "1", "|", "S", "o", "u", "r", "c", "e", "I", "d", ":", "2">>
    /\ ret.v.ok
    /\ ret.v.val.timeout.source_id = Some(<<"2">>)
    /\ ret.v.val.timeout.outcome = None

\* ------------------------------------------------------------------------
\* C26: hash_password serialises each UTF-16 code unit of the password as
\* two bytes, low byte first, computes CRC-32/ISO-HDLC over those bytes and
\* prints the 32-bit result as lowercase hexadecimal without leading zeros;
\* for the empty password the digest is the CRC of the empty byte string.
\* ------------------------------------------------------------------------
\* the digest that the client has written: the text between the username
\* line and the NUL byte
SentDigest == pop(split(wire \o outbuf, NL)[4])

LowerHex == {"0", "1", "2", "3", "4", "5", "6", "7", "8", "9", "a", "b", "c", "d", "e", "f"}

C26_PasswordDigest ==
    writes = 4 =>
        /\ SentDigest = ReferenceDigest(password)
        /\ \A i \in 1..Len(SentDigest) : SentDigest[i] \in LowerHex
        /\ Len(SentDigest) \in 1..8
        /\ Len(SentDigest) > 1 => SentDigest[1] # "0"
        /\ password = <<>> => SentDigest = <<"0">>

\* the digest of "h0" is 0x00903603, written with six digits
C26_Witness ==
    /\ writes = 4
    /\ password = <<104, 48>>
    /\ SentDigest = <<"9", "0", "3", "6", "0", "3">>

\* ------------------------------------------------------------------------
\* C27: the client writes no byte until the banner line, the version line,
\* the hostname line and the 0x00 terminator have all been read and
\* validated; whenever the handshake fails on the server header (TcpRead,
\* TcpHeaderProtocol, TcpHeaderVersion, TcpEndOfHeader) nothing has been
\* written to the connection.
\* ------------------------------------------------------------------------
SomethingWritten == writes > 0 \/ outbuf # <<>> \/ wire # <<>>

C27_NoWriteBeforeHeaderRead ==
    /\ SomethingWritten =>
          /\ reads = 4
          /\ TcpHeaderValid
          /\ pos = TcpTerminatorAt + 1
    /\ HandshakeErr \in {"TcpRead", "TcpHeaderProtocol", "TcpHeaderVersion", "TcpEndOfHeader"} =>
          ~SomethingWritten

\* the banner is in the write buffer, the four reads are done
C27_Witness ==
    /\ pc = "tcp_write"
    /\ writes = 1
    /\ outbuf = <<"X", "t", "r", "a", "L", "i", "b", ".", "S", "t", "r", "e", "a", "m", ".", "0", NL>>
    /\ wire = <<>>
    /\ reads = 4
    /\ stream[pos - 1] = NUL

\* ------------------------------------------------------------------------
\* C28: every ObjectProperty variant other than Unknown is produced by its
\* documented key: the example field of a doc comment decodes to the variant
\* it documents and never to Unknown; in particular
\* "LockedTargetAzimuth=14.5" decodes to LockedTargetAzimuth(14.5) and
\* "CallSign=Jester" to Callsign("Jester").
\* ------------------------------------------------------------------------
C28_DocumentedKeyDecodes ==
    pc = "fn_object" =>
        \A i \in 1..Len(ObjectPropertyDocs) :
            arg = ObjectPropertyDocs[i].field =>
                /\ ret.v.ok
                /\ ret.v.val.variant = ObjectPropertyDocs[i].variant

\* ------------------------------------------------------------------------
\* C29: on a finite stream followed by end-of-stream every call to next()
\* returns, a record or an error, after finitely many line reads: the loop
\* does not spin at end-of-stream, neither after a comment line nor after a
\* line ending in a continuation backslash, and each later call at
\* end-of-stream returns too.
\* ------------------------------------------------------------------------
C29_NextReturns == (pc = "next_read") ~> (pc = "ready")

\* the only line is a comment: the first call read it, met the end of the
\* stream and returned, and so did two later calls
C29_Witness ==
    /\ pc = "ready"
    /\ Body = <<"/", "/", "c", NL>>
    /\ Len(results) = 3
    /\ starts = <<BodyStart, Len(stream) + 1, Len(stream) + 1>>
    /\ reads = 6

\* ------------------------------------------------------------------------
\* C30: the header parser reports every bad or truncated header as an error
\* value and never aborts: for every input stream, also one that ends right
\* after "FileVersion=2.2" with no newline, try_from_reader returns Ok(reader)
\* or an Err of the error taxonomy.
\* ------------------------------------------------------------------------
C30_HeaderNeverAborts ==
    /\ pc # "panicked"
    /\ pc \notin {"hdr_type", "hdr_version"} => ctor.some

====
